---- MODULE Spec2Model ----
(***************************************************************************)
(* Animation composition and timing engine of manimlib:                    *)
(* AnimationGroup / LaggedStart / Succession (animation/composition.py).   *)
(*                                                                         *)
(* Real numbers (times, alphas) are exact rationals <<num, den>> with      *)
(* den > 0 in lowest terms; the floating-point rounding of the Python code *)
(* is not modelled.  Child animations are the positions 1..n of the list   *)
(* `animations` (Python index i is position i + 1); a child is represented *)
(* by its run time and by the calls it receives.                           *)
(***************************************************************************)
EXTENDS Integers, Sequences, FiniteSets, TLC

\* ------------------------------------------------------------------ bounds
\* Largest number of child animations of a group.
MaxChildren == 3
\* Child run times are the integers 0..MaxRunTime.
MaxRunTime == 2
\* Alphas passed by the driver are k/AlphaDen, k in 0..AlphaDen.
AlphaDen == 4
\* Explicit lag ratios are k/LagDen, k in 0..LagDen.
LagDen == 2
\* Largest number of interpolate calls the driver makes on one Succession.
MaxCalls == 3
\* Explicit non-negative run_time arguments are the integers 0..MaxOverride.
MaxOverride == 1
\* Largest nesting depth of a tree of composites (1: no nested composite).
MaxDepth == 2
MaxDt == 3
DtDen == 2
MaxTotalTime == 4
MaxFlowCalls == 2

\* ------------------------------------------------------- exact arithmetic
Abs(x) == IF x < 0 THEN -x ELSE x

RECURSIVE GCD(_, _)
GCD(a, b) == IF b = 0 THEN a ELSE GCD(b, a % b)

\* The rational n/d (d # 0) in lowest terms with a positive denominator.
Rat(n, d) ==
    LET g == GCD(Abs(n), Abs(d))
        s == IF d < 0 THEN -1 ELSE 1
    IN  <<(s * n) \div g, (s * d) \div g>>

RInt(k) == <<k, 1>>
RAdd(x, y) == Rat(x[1] * y[2] + y[1] * x[2], x[2] * y[2])
RSub(x, y) == Rat(x[1] * y[2] - y[1] * x[2], x[2] * y[2])
RMul(x, y) == Rat(x[1] * y[1], x[2] * y[2])
\* What a division by zero yields in place of a number: Python raises
\* ZeroDivisionError.  No rational has denominator 0.
ZeroDivisionError == <<0, 0>>
\* x / y
RDiv(x, y) == IF y[1] = 0 THEN ZeroDivisionError ELSE Rat(x[1] * y[2], x[2] * y[1])
RLess(x, y) == x[1] * y[2] < y[1] * x[2]
\* math.floor / int() on a non-negative value.
RFloor(x) == x[1] \div x[2]

Zero == RInt(0)
One == RInt(1)

\* ------------------------------------------------------------- utilities
\* utils/simple_functions.py: clip
clip(a, min_a, max_a) ==
    IF RLess(a, min_a) THEN min_a
    ELSE IF RLess(max_a, a) THEN max_a
    ELSE a

\* utils/bezier.py: interpolate -- linear interpolation between start and end.
interpolate(start, end, alpha) ==
    RAdd(RMul(RSub(One, alpha), start), RMul(alpha, end))

\* utils/bezier.py: integer_interpolate -- <<index, residue>>:
\* index = floor(alpha * (end - start)) clamped to [start, end - 1],
\* residue = alpha * (end - start) - (index - start).
integer_interpolate(start, end, alpha) ==
    LET scaled == RMul(alpha, RInt(end - start))
        raw == start + RFloor(scaled)
        index == IF raw < start THEN start
                 ELSE IF raw > end - 1 THEN end - 1
                 ELSE raw
    IN  <<index, RSub(scaled, RInt(index - start))>>

\* turn_animation_into_updater: time_ratio = total_time / run_time, the
\* position of an animation that has been running for total_time.
time_ratio(total_time, rt) == RDiv(total_time, rt)

\* utils/rate_functions.py: smooth
smooth(t) ==
    LET s == RSub(One, t)
        t3 == RMul(t, RMul(t, t))
    IN  RMul(t3, RAdd(RAdd(RMul(RInt(10), RMul(s, s)), RMul(RInt(5), RMul(s, t))),
                      RMul(t, t)))

\* min and max of two numbers.
RMin(x, y) == IF RLess(y, x) THEN y ELSE x
RMax(x, y) == IF RLess(x, y) THEN y ELSE x

\* composition.py: DEFAULT_LAGGED_START_LAG_RATIO = 0.05
DEFAULT_LAGGED_START_LAG_RATIO == Rat(5, 100)

\* ------------------------------------------------------------------ state
VARIABLES
    cls,                 \* class of the composite
    animations,          \* self.animations: the children's run times, in list order
    lag_ratio,           \* self.lag_ratio
    anims_with_timings,  \* self.anims_with_timings: <<child, start_time, end_time>>
    max_end_time,        \* self.max_end_time
    run_time,            \* self.run_time
    run_time_arg,        \* the run_time argument __init__ was called with
    animating_status,    \* self.group's "currently animating" flag
    active_animation,    \* Succession.active_animation (0: attribute not set)
    status,              \* each child's lifecycle state
    events,              \* every begin / finish call received by a child, in order
    calls,               \* the child calls made by the last operation, in order
    op,                  \* the last operation called on the composite
    last_alpha,          \* the alpha of the latest interpolate call (NoAlpha: none yet)
    phase,               \* the driver's position: constructed, begun, finished
    raised,              \* the exception the last operation raised, or "none"
    ncalls,              \* number of interpolate calls made on a Succession so far
    from_zero,           \* the first alpha passed to a Succession was 0
    mono,                \* the alphas passed to a Succession so far are non-decreasing
    stepwise,            \* no Succession.interpolate so far resolved a child other than
                         \* the active one or its successor
    tree,                \* a composite whose children may be composites themselves
                         \* (NoTree when the composite's children are plain animations)
    leaf_calls,          \* the calls the last operation on the tree delivered to its
                         \* leaves, in order: <<method, path>> or
                         \* <<"interpolate", path, alpha>>
    repeated,            \* the last interpolate on the tree had the alpha of the
                         \* interpolate right before it
    total_time,          \* animation.total_time of the animation an updater drives
    has_updater,         \* the updater is among the mobject's updaters
    cycle,               \* the cycle argument of turn_animation_into_updater
    remover,             \* the composite's remover flag
    child_anims,         \* each child's mobject and remover flag
    scene,               \* the mobjects in the scene
    reveal,              \* the partial-reveal animation under study: its class, the
                         \* kind of its mobject, its time_width
    partial,             \* the <<lower, upper>> part of the mobject last shown
    flows,               \* two runs of one PhaseFlow from the same starting state
    group,               \* self.group of a composite built by LaggedStartMap
    group_arg,           \* the group argument LaggedStartMap was called with
    all_submobs,         \* ShowIncreasingSubsets.all_submobs
    int_func,            \* ShowIncreasingSubsets.int_func
    rate_func,           \* the rate_func of the ShowIncreasingSubsets
    submobjects,         \* the submobjects of the mobject of a ShowIncreasingSubsets
    event_listners,      \* EventDispatcher.event_listners: event type -> listeners
    mouse_point,         \* EventDispatcher.mouse_point
    mouse_drag_point,    \* EventDispatcher.mouse_drag_point
    pressed_keys,        \* EventDispatcher.pressed_keys
    draggable_object_listners,  \* EventDispatcher.draggable_object_listners
    event,               \* the arguments of the last dispatch: type, point, symbol
    returned,            \* what the last dispatch returned
    seen,                \* the dispatcher's attributes as the first callback of the
                         \* last dispatch found them (<<>>: no callback was called)
    removed,             \* the listener last passed to remove_listner, if it was not
                         \* passed to add_listner since
    last_press           \* whether a MousePressEvent was dispatched since construction
                         \* and the latest MouseReleaseEvent, and the MouseDragEvent
                         \* listeners whose mobject touched the mouse point at the
                         \* latest one

config == <<cls, animations, lag_ratio, anims_with_timings, max_end_time, run_time,
            run_time_arg>>
driver == <<ncalls, from_zero, mono, stepwise>>
nested == <<tree, leaf_calls, repeated>>
loop == <<total_time, has_updater, cycle>>
removal == <<remover, child_anims, scene>>
solo == <<reveal, partial, flows>>
subsets == <<all_submobs, int_func, rate_func, submobjects>>
dispatcher == <<event_listners, mouse_point, mouse_drag_point, pressed_keys,
                draggable_object_listners, event, returned, seen, removed, last_press>>
extras == <<group, group_arg, subsets, dispatcher>>
outside == <<loop, removal, solo, extras>>
vars == <<cls, animations, lag_ratio, anims_with_timings, max_end_time, run_time,
          run_time_arg,
          animating_status, active_animation, status, events, calls, op, last_alpha,
          phase, raised, ncalls, from_zero, mono, stepwise, tree, leaf_calls, repeated,
          total_time, has_updater, cycle, remover, child_anims, scene, reveal, partial,
          flows, group, group_arg, all_submobs, int_func, rate_func, submobjects, event_listners, mouse_point,
          mouse_drag_point, pressed_keys, draggable_object_listners, event, returned, seen,
          removed, last_press>>

NoAlpha == <<>>
NoTree == <<>>

\* --------------------------------------------------------------- inputs
Alphas == {Rat(k, AlphaDen) : k \in 0..AlphaDen}
LagGrid == {Rat(k, LagDen) : k \in 0..LagDen}

RECURSIVE SeqsUpTo(_, _)
SeqsUpTo(S, n) ==
    IF n = 0 THEN {<<>>}
    ELSE LET shorter == SeqsUpTo(S, n - 1)
         IN  shorter \cup {Append(s, x) : s \in {t \in shorter : Len(t) = n - 1}, x \in S}

\* Lists of child run times.
AnimationLists == SeqsUpTo(0..MaxRunTime, MaxChildren)

\* The lag_ratio each constructor uses when none is given.
DefaultLagRatio(c) ==
    CASE c = "AnimationGroup" -> Zero
      [] c = "LaggedStart" -> DEFAULT_LAGGED_START_LAG_RATIO
      [] c = "Succession" -> One

\* ---------------------------------------------------------- construction
\* AnimationGroup.build_animations_with_timings: the loop from child i on,
\* with curr_time and the table built so far.
\* times[i] is anim.get_run_time() of child i.
RECURSIVE BuildFrom(_, _, _, _, _)
BuildFrom(times, lag, i, curr_time, table) ==
    IF i > Len(times) THEN table
    ELSE LET start_time == curr_time
             end_time == RAdd(start_time, times[i])
         IN  BuildFrom(times, lag, i + 1,
                       interpolate(start_time, end_time, lag),
                       Append(table, <<i, start_time, end_time>>))

\* anim.get_run_time() of each child of a composite whose children are plain
\* animations, given by their integer run times.
RunTimes(anims) == [i \in 1..Len(anims) |-> RInt(anims[i])]

\* Variant: curr_time = end_time, the lag ratio ignored.
build_animations_back_to_back(anims, lag) == BuildFrom(RunTimes(anims), One, 1, Zero, <<>>)

build_animations_with_timings(anims, lag) == BuildFrom(RunTimes(anims), lag, 1, Zero, <<>>)

RECURSIVE MaxEndFrom(_, _, _)
MaxEndFrom(table, i, best) ==
    IF i > Len(table) THEN best
    ELSE MaxEndFrom(table, i + 1, IF RLess(best, table[i][3]) THEN table[i][3] ELSE best)

\* Variant: the end time of the last child.
MaxEndTimeOfLast(table) == IF Len(table) = 0 THEN Zero ELSE table[Len(table)][3]

\* max((awt[2] for awt in self.anims_with_timings), default=0)
MaxEndTime(table) == IF Len(table) = 0 THEN Zero ELSE MaxEndFrom(table, 2, table[1][3])

\* Variant: the run_time argument is ignored.
InitRunTimeComputed(arg, met) == met

\* Variant: run_time <= 0 falls back to max_end_time.
InitRunTimeNonPositive(arg, met) == IF RLess(Zero, arg) THEN arg ELSE met

\* self.run_time = self.max_end_time if run_time < 0 else run_time
InitRunTime(arg, met) == IF RLess(arg, Zero) THEN met ELSE arg

\* A child animation on the given mobject.
ChildAnim(m, r) == [mobject |-> m, remover |-> r]

\* No updater drives the animation.
NoUpdater == total_time = Zero /\ has_updater = FALSE /\ cycle = FALSE

\* No partial-reveal animation and no PhaseFlow is under study.
NoLeaf == reveal = <<>> /\ partial = <<>> /\ flows = <<>>

\* No ShowIncreasingSubsets is under study.
NoSubsets ==
    all_submobs = <<>> /\ int_func = "None" /\ rate_func = "None" /\ submobjects = <<>>

\* No EventDispatcher is under study.
NoDispatcher ==
    /\ event_listners = <<>>
    /\ mouse_point = 0
    /\ mouse_drag_point = 0
    /\ pressed_keys = {}
    /\ draggable_object_listners = <<>>
    /\ event = <<>>
    /\ returned = "None"
    /\ seen = <<>>
    /\ removed = {}
    /\ last_press = <<>>

\* Neither of them, and self.group is not tracked.
NoExtras == group = <<>> /\ group_arg = <<>> /\ NoSubsets /\ NoDispatcher

\* The flat composite variables when no flat composite is under study.
NoFlatComposite ==
    /\ cls = "None"
    /\ animations = <<>>
    /\ lag_ratio = Zero
    /\ run_time_arg = RInt(-1)
    /\ anims_with_timings = <<>>
    /\ max_end_time = Zero
    /\ run_time = Zero
    /\ animating_status = FALSE
    /\ active_animation = 0
    /\ status = <<>>
    /\ last_alpha = NoAlpha
    /\ ncalls = 0
    /\ from_zero = FALSE
    /\ mono = TRUE
    /\ stepwise = TRUE
    /\ repeated = FALSE
    /\ remover = FALSE
    /\ child_anims = <<>>
    /\ scene = {}

\* AnimationGroup.__init__ (and the subclasses' __init__, which only supply
\* the default lag_ratio): the children, the timing table and the run time
\* after construction.
ConstructAnimations(c, anims, lag, arg) ==
    LET table == build_animations_with_timings(anims, lag)
    IN  /\ cls = c
        /\ animations = anims
        /\ lag_ratio = lag
        /\ run_time_arg = arg
        /\ anims_with_timings = table
        /\ max_end_time = MaxEndTime(table)
        /\ run_time = InitRunTime(arg, MaxEndTime(table))
        /\ animating_status = FALSE
        /\ active_animation = 0
        /\ status = [i \in 1..Len(anims) |-> "NotStarted"]
        /\ events = <<>>
        /\ calls = <<>>
        /\ op = "__init__"
        /\ last_alpha = NoAlpha
        /\ phase = "constructed"
        /\ raised = "none"
        /\ ncalls = 0
        /\ from_zero = FALSE
        /\ mono = TRUE
        /\ stepwise = TRUE
        /\ tree = NoTree
        /\ leaf_calls = <<>>
        /\ repeated = FALSE
        /\ NoUpdater
        /\ NoLeaf

\* The state after construction of a composite whose self.group is not
\* tracked.
ConstructComposite(c, anims, lag, arg) ==
    ConstructAnimations(c, anims, lag, arg) /\ NoExtras

\* The same with every remover flag left at its default and an empty scene.
Construct(c, anims, lag, arg) ==
    /\ ConstructComposite(c, anims, lag, arg)
    /\ remover = FALSE
    /\ child_anims = [i \in 1..Len(anims) |-> ChildAnim(i, FALSE)]
    /\ scene = {}

\* ------------------------------------------------- the children's side
\* A child call is <<"begin", child>>, <<"finish", child>> or
\* <<"interpolate", child, alpha>>.
\* Animation.begin / Animation.finish as seen from the composite: the child
\* becomes Begun / Finished.
ChildBegin(st, i) == [st EXCEPT ![i] = "Begun"]
ChildFinish(st, i) == [st EXCEPT ![i] = "Finished"]

RECURSIVE ApplyCalls(_, _)
\* The children's lifecycle states after the calls cs, made in order.
ApplyCalls(st, cs) ==
    IF cs = <<>> THEN st
    ELSE LET c == Head(cs)
             st1 == CASE c[1] = "begin" -> ChildBegin(st, c[2])
                      [] c[1] = "finish" -> ChildFinish(st, c[2])
                      [] OTHER -> st
         IN  ApplyCalls(st1, Tail(cs))

\* The begin / finish calls among cs.
Lifecycle(cs) == SelectSeq(cs, LAMBDA c : c[1] # "interpolate")

RECURSIVE ForAll(_, _, _)
\* for anim in self.animations: anim.method() -- from child i on.
ForAll(method, n, i) ==
    IF i > n THEN <<>> ELSE <<<<method, i>>>> \o ForAll(method, n, i + 1)

\* ---------------------------------------- AnimationGroup / LaggedStart
\* Variant: only the first child is begun.
GroupBeginFirstOnly(n) == IF n > 0 THEN <<<<"begin", 1>>>> ELSE <<>>

\* The child calls of AnimationGroup.begin on n children.
GroupBeginCalls(n) == ForAll("begin", n, 1)

\* Variant: begin rebuilds the timing table, back to back.
GroupBeginRebuilding ==
    /\ phase = "constructed"
    /\ cls \in {"AnimationGroup", "LaggedStart"}
    /\ raised = "none"
    /\ animating_status' = TRUE
    /\ calls' = GroupBeginCalls(Len(animations))
    /\ events' = events \o Lifecycle(calls')
    /\ status' = ApplyCalls(status, calls')
    /\ op' = "begin"
    /\ phase' = "begun"
    /\ anims_with_timings' = build_animations_back_to_back(animations, lag_ratio)
    /\ UNCHANGED <<cls, animations, lag_ratio, max_end_time, run_time, run_time_arg, nested,
                   outside, active_animation, last_alpha, raised, driver>>

\* AnimationGroup.begin, whatever was called before.
GroupBeginBody ==
    /\ cls \in {"AnimationGroup", "LaggedStart"}
    /\ raised = "none"
    /\ animating_status' = TRUE
    /\ calls' = GroupBeginCalls(Len(animations))
    /\ events' = events \o Lifecycle(calls')
    /\ status' = ApplyCalls(status, calls')
    /\ op' = "begin"
    /\ phase' = "begun"
    /\ UNCHANGED <<config, nested, outside, active_animation, last_alpha, raised>>

\* AnimationGroup.begin, called by a driver that calls it first and once.
GroupBegin == phase = "constructed" /\ GroupBeginBody /\ UNCHANGED driver

\* Variant: no test for anim_time == 0 before dividing.
SubAlphaUnguarded(awt, alpha, met) ==
    LET quotient == RDiv(RSub(RMul(alpha, met), awt[2]), RSub(awt[3], awt[2]))
    IN  IF quotient = ZeroDivisionError THEN ZeroDivisionError
        ELSE clip(quotient, Zero, One)

\* Variant: the elapsed time is not divided by anim_time.
SubAlphaUndivided(awt, alpha, met) ==
    IF awt[3] = awt[2] THEN Zero
    ELSE clip(RSub(RMul(alpha, met), awt[2]), Zero, One)

\* The sub_alpha AnimationGroup.interpolate computes for one table entry
\* (ZeroDivisionError when the division raises).
SubAlpha(awt, alpha, met) ==
    LET time == RMul(alpha, met)
        start_time == awt[2]
        end_time == awt[3]
        anim_time == RSub(end_time, start_time)
        quotient == RDiv(RSub(time, start_time), anim_time)
    IN  IF anim_time = Zero THEN Zero
        ELSE IF quotient = ZeroDivisionError THEN ZeroDivisionError
        ELSE clip(quotient, Zero, One)

RECURSIVE InterpolateStartedFrom(_, _, _, _)
\* Variant: children whose interval has not started yet are skipped.
InterpolateStartedFrom(table, alpha, met, i) ==
    IF i > Len(table) THEN <<>>
    ELSE (IF RLess(RMul(alpha, met), table[i][2]) THEN <<>>
          ELSE <<<<"interpolate", table[i][1], SubAlpha(table[i], alpha, met)>>>>)
         \o InterpolateStartedFrom(table, alpha, met, i + 1)

RECURSIVE InterpolateFrom(_, _, _, _)
\* The loop of AnimationGroup.interpolate from table entry i on: the child
\* calls it makes, up to the entry (if any) whose division raises.
InterpolateFrom(table, alpha, met, i) ==
    IF i > Len(table) THEN <<>>
    ELSE LET sub_alpha == SubAlpha(table[i], alpha, met)
         IN  IF sub_alpha = ZeroDivisionError THEN <<>>
             ELSE <<<<"interpolate", table[i][1], sub_alpha>>>>
                  \o InterpolateFrom(table, alpha, met, i + 1)

\* Whether AnimationGroup.interpolate(alpha) raises ZeroDivisionError.
InterpolateRaises(table, alpha, met) ==
    \E i \in 1..Len(table) : SubAlpha(table[i], alpha, met) = ZeroDivisionError

\* Variant: time = alpha * self.run_time.
GroupInterpolateByRunTime ==
    /\ cls \in {"AnimationGroup", "LaggedStart"}
    /\ phase = "begun"
    /\ raised = "none"
    /\ \E alpha \in Alphas :
        /\ calls' = InterpolateFrom(anims_with_timings, alpha, run_time, 1)
        /\ raised' = IF InterpolateRaises(anims_with_timings, alpha, run_time)
                     THEN "ZeroDivisionError" ELSE "none"
        /\ last_alpha' = alpha
    /\ op' = "interpolate"
    /\ UNCHANGED <<config, nested, outside, animating_status, active_animation, status,
                   events, phase, driver>>

\* AnimationGroup.interpolate, whatever was called before.
GroupInterpolateBody ==
    /\ cls \in {"AnimationGroup", "LaggedStart"}
    /\ raised = "none"
    /\ \E alpha \in Alphas :
        /\ calls' = InterpolateFrom(anims_with_timings, alpha, max_end_time, 1)
        /\ raised' = IF InterpolateRaises(anims_with_timings, alpha, max_end_time)
                     THEN "ZeroDivisionError" ELSE "none"
        /\ last_alpha' = alpha
    /\ op' = "interpolate"
    /\ UNCHANGED <<config, nested, outside, animating_status, active_animation, status,
                   events, phase>>

\* AnimationGroup.interpolate, called between begin and finish.
GroupInterpolate == phase = "begun" /\ GroupInterpolateBody /\ UNCHANGED driver

\* The child calls of AnimationGroup.finish on n children.
GroupFinishCalls(n) == ForAll("finish", n, 1)

\* AnimationGroup.finish, whatever was called before.
GroupFinishBody ==
    /\ cls \in {"AnimationGroup", "LaggedStart"}
    /\ raised = "none"
    /\ animating_status' = FALSE
    /\ calls' = GroupFinishCalls(Len(animations))
    /\ events' = events \o Lifecycle(calls')
    /\ status' = ApplyCalls(status, calls')
    /\ op' = "finish"
    /\ phase' = "finished"
    /\ UNCHANGED <<config, nested, outside, active_animation, last_alpha, raised>>

\* AnimationGroup.finish, called once after begin.
GroupFinish == phase = "begun" /\ GroupFinishBody /\ UNCHANGED driver

\* An AnimationGroup or LaggedStart built from any list of children, any lag
\* ratio (explicit or the class default) and run_time left at its default -1.
Init ==
    \E c \in {"AnimationGroup", "LaggedStart"}, anims \in AnimationLists :
        \E lag \in LagGrid \cup {DefaultLagRatio(c)} :
            Construct(c, anims, lag, RInt(-1))

Next == GroupBegin \/ GroupInterpolate \/ GroupFinish

Spec == Init /\ [][Next]_vars

\* The run_time arguments tried on a group of the given children: the default
\* -1, the small non-negative integers, and twice the computed max_end_time.
RunTimeArgs(anims, lag) ==
    {RInt(k) : k \in -1..MaxOverride}
        \cup {RMul(RInt(2), MaxEndTime(build_animations_with_timings(anims, lag)))}

\* An AnimationGroup or LaggedStart built as in Init, with run_time given or
\* left at its default.
InitOverride ==
    \E c \in {"AnimationGroup", "LaggedStart"}, anims \in AnimationLists :
        \E lag \in LagGrid \cup {DefaultLagRatio(c)} :
            \E arg \in RunTimeArgs(anims, lag) :
                Construct(c, anims, lag, arg)

SpecOverride == InitOverride /\ [][Next]_vars

\* ------------------------------------------------------------ Succession
\* Variant: begin inherited from AnimationGroup, every child begun.
SuccessionBeginAll(n) == ForAll("begin", n, 1)

\* The child calls of Succession.begin on n > 0 children.
SuccessionBeginCalls(n) == <<<<"begin", 1>>>>

\* Succession.begin, whatever was called before.
SuccessionBeginBody ==
    /\ cls = "Succession"
    /\ raised = "none"
    /\ op' = "begin"
    /\ IF Len(animations) > 0
       THEN /\ active_animation' = 1
            /\ calls' = SuccessionBeginCalls(Len(animations))
            /\ phase' = "begun"
            /\ UNCHANGED raised
       ELSE \* assert len(self.animations) > 0
            /\ raised' = "AssertionError"
            /\ calls' = <<>>
            /\ UNCHANGED <<active_animation, phase>>
    /\ events' = events \o Lifecycle(calls')
    /\ status' = ApplyCalls(status, calls')
    /\ UNCHANGED <<config, nested, outside, animating_status, last_alpha>>

\* Succession.begin, called by a driver that calls it first and once.
SuccessionBegin == phase = "constructed" /\ SuccessionBeginBody /\ UNCHANGED driver

\* What reading self.active_animation raises before begin has set it
\* (an empty self.animations[index] fails first, in interpolate).
Unbegun(method) ==
    IF method = "interpolate" /\ Len(animations) = 0 THEN "IndexError" ELSE "AttributeError"

\* Variant: the new child is begun without the active one being finished.
SuccessionStepNoFinish(n, active, alpha) ==
    LET ii == integer_interpolate(0, n, alpha)
        animation == ii[1] + 1
    IN  IF animation # active
        THEN <<animation, <<<<"begin", animation>>, <<"interpolate", animation, ii[2]>>>>>>
        ELSE <<animation, <<<<"interpolate", animation, ii[2]>>>>>>

\* Variant: the child receives the Succession's own alpha.
SuccessionStepGlobalAlpha(n, active, alpha) ==
    LET animation == integer_interpolate(0, n, alpha)[1] + 1
    IN  IF animation # active
        THEN <<animation, <<<<"finish", active>>, <<"begin", animation>>,
                            <<"interpolate", animation, alpha>>>>>>
        ELSE <<animation, <<<<"interpolate", animation, alpha>>>>>>

\* Variant: self.active_animation is not updated.
SuccessionStepKeepsActive(n, active, alpha) ==
    LET ii == integer_interpolate(0, n, alpha)
        animation == ii[1] + 1
    IN  IF animation # active
        THEN <<active, <<<<"finish", active>>, <<"begin", animation>>,
                         <<"interpolate", animation, ii[2]>>>>>>
        ELSE <<animation, <<<<"interpolate", animation, ii[2]>>>>>>

\* Variant: the new child is begun before the active one is finished.
SuccessionStepBeginFirst(n, active, alpha) ==
    LET ii == integer_interpolate(0, n, alpha)
        animation == ii[1] + 1
    IN  IF animation # active
        THEN <<animation, <<<<"begin", animation>>, <<"finish", active>>,
                            <<"interpolate", animation, ii[2]>>>>>>
        ELSE <<animation, <<<<"interpolate", animation, ii[2]>>>>>>

\* Succession.interpolate(alpha) on n children when child `active` is the
\* active one: <<new active child, child calls in order>>.
SuccessionStep(n, active, alpha) ==
    LET ii == integer_interpolate(0, n, alpha)
        animation == ii[1] + 1
        subalpha == ii[2]
    IN  IF animation # active
        THEN <<animation, <<<<"finish", active>>, <<"begin", animation>>,
                            <<"interpolate", animation, subalpha>>>>>>
        ELSE <<animation, <<<<"interpolate", animation, subalpha>>>>>>

\* Succession.interpolate, whatever was called before; active_animation = 0
\* stands for the attribute begin has not set yet.
SuccessionInterpolateBody ==
    /\ cls = "Succession"
    /\ raised = "none"
    /\ ncalls < MaxCalls
    /\ \E alpha \in Alphas :
        IF active_animation = 0
        THEN /\ raised' = Unbegun("interpolate")
             /\ calls' = <<>>
             /\ last_alpha' = alpha
             /\ UNCHANGED <<active_animation, from_zero, mono, stepwise>>
        ELSE LET step == SuccessionStep(Len(animations), active_animation, alpha)
             IN  /\ calls' = step[2]
                 /\ active_animation' = step[1]
                 /\ last_alpha' = alpha
                 /\ from_zero' = IF last_alpha = NoAlpha THEN alpha = Zero ELSE from_zero
                 /\ mono' = (mono /\ (last_alpha = NoAlpha \/ ~RLess(alpha, last_alpha)))
                 /\ stepwise' = (stepwise
                                  /\ step[1] \in {active_animation, active_animation + 1})
                 /\ UNCHANGED raised
    /\ events' = events \o Lifecycle(calls')
    /\ status' = ApplyCalls(status, calls')
    /\ op' = "interpolate"
    /\ ncalls' = ncalls + 1
    /\ UNCHANGED <<config, nested, outside, animating_status, phase>>

\* Succession.interpolate, called between begin and finish.
SuccessionInterpolate == phase = "begun" /\ SuccessionInterpolateBody

\* Variant: finish inherited from AnimationGroup, every child finished.
SuccessionFinishAll(active) == ForAll("finish", Len(animations), 1)

\* The child calls of Succession.finish.
SuccessionFinishCalls(active) == <<<<"finish", active>>>>

\* Succession.finish, whatever was called before.
SuccessionFinishBody ==
    /\ cls = "Succession"
    /\ raised = "none"
    /\ IF active_animation = 0
       THEN /\ raised' = Unbegun("finish")
            /\ calls' = <<>>
            /\ UNCHANGED phase
       ELSE /\ calls' = SuccessionFinishCalls(active_animation)
            /\ phase' = "finished"
            /\ UNCHANGED raised
    /\ events' = events \o Lifecycle(calls')
    /\ status' = ApplyCalls(status, calls')
    /\ op' = "finish"
    /\ UNCHANGED <<config, nested, outside, animating_status, active_animation, last_alpha>>

\* Succession.finish, called once after begin.
SuccessionFinish == phase = "begun" /\ SuccessionFinishBody /\ UNCHANGED driver

\* A Succession built from any list of children and any lag ratio (explicit
\* or the default 1), run_time left at its default -1.
InitSuccession ==
    \E anims \in AnimationLists :
        \E lag \in LagGrid \cup {DefaultLagRatio("Succession")} :
            Construct("Succession", anims, lag, RInt(-1))

NextSuccession == SuccessionBegin \/ SuccessionInterpolate \/ SuccessionFinish

SpecSuccession == InitSuccession /\ [][NextSuccession]_vars

\* ------------------------------------------------- removal from the scene
\* Scene.remove(mobject)
SceneRemove(sc, m) == sc \ {m}

\* Animation.clean_up_from_scene of a child: the scene afterwards.
ChildCleanUp(sc, anim) == IF anim.remover THEN SceneRemove(sc, anim.mobject) ELSE sc

RECURSIVE CleanUpFrom(_, _)
\* for anim in self.animations: anim.clean_up_from_scene(scene) -- from
\* child i on.
CleanUpFrom(sc, i) ==
    IF i > Len(child_anims) THEN sc
    ELSE CleanUpFrom(ChildCleanUp(sc, child_anims[i]), i + 1)

\* AnimationGroup.clean_up_from_scene, which Succession and LaggedStart
\* inherit; the scene calls it after finish.
CleanUpFromScene ==
    /\ phase = "finished"
    /\ raised = "none"
    /\ op # "clean_up_from_scene"
    /\ scene' = CleanUpFrom(scene, 1)
    /\ calls' = ForAll("clean_up_from_scene", Len(animations), 1)
    /\ op' = "clean_up_from_scene"
    /\ UNCHANGED <<config, nested, loop, solo, extras, remover, child_anims, animating_status,
                   active_animation, status, events, last_alpha, phase, raised, driver>>

\* The mobjects of n children that all act on mobject 1, or each on its own.
ChildMobjects(n) == {[i \in 1..n |-> 1], [i \in 1..n |-> i]}

\* A composite of any class and any number of children, with its own remover
\* flag and each child's, all its mobjects in the scene.
InitRemover ==
    \E c \in {"AnimationGroup", "LaggedStart", "Succession"}, n \in 0..MaxChildren :
        \E r \in BOOLEAN, rs \in [1..n -> BOOLEAN], ms \in ChildMobjects(n) :
            /\ ConstructComposite(c, [i \in 1..n |-> 1], DefaultLagRatio(c), RInt(-1))
            /\ remover = r
            /\ child_anims = [i \in 1..n |-> ChildAnim(ms[i], rs[i])]
            /\ scene = {ms[i] : i \in 1..n}

NextRemover ==
    \/ GroupBegin
    \/ GroupFinish
    \/ SuccessionBegin
    \/ SuccessionFinish
    \/ CleanUpFromScene

SpecRemover == InitRemover /\ [][NextRemover]_vars

\* ------------------------------------------- partial-reveal animations
\* The time_width arguments of ShowPassingFlash: the default 0.1, and 1/2.
TimeWidths == {Rat(1, 10), Rat(1, 2)}

\* The partial-reveal animations: ShowCreation, Uncreate and ShowPassingFlash
\* on a path-based mobject (VMobject) or on another one (Mobject).
Reveals ==
    {[cls |-> c, mobject |-> m, time_width |-> Zero] :
        c \in {"ShowCreation", "Uncreate"}, m \in {"VMobject", "Mobject"}}
    \cup {[cls |-> "ShowPassingFlash", mobject |-> m, time_width |-> tw] :
              m \in {"VMobject", "Mobject"}, tw \in TimeWidths}

\* ShowPartial.__init__ and its subclasses' __init__: attributes are stored
\* and handed to the base class; the mobject is not examined.
InitPartial ==
    /\ reveal \in Reveals
    /\ partial = <<>>
    /\ flows = <<>>
    /\ op = "__init__"
    /\ phase = "constructed"
    /\ raised = "none"
    /\ calls = <<>>
    /\ events = <<>>
    /\ tree = NoTree
    /\ leaf_calls = <<>>
    /\ NoFlatComposite
    /\ NoUpdater
    /\ NoExtras

\* get_bounds(alpha) of ShowCreation (which Uncreate inherits) and of
\* ShowPassingFlash.
get_bounds(anim, alpha) ==
    IF anim.cls = "ShowPassingFlash"
    THEN LET tw == anim.time_width
             upper == interpolate(Zero, RAdd(One, tw), alpha)
             lower == RSub(upper, tw)
         IN  <<RMax(lower, Zero), RMin(upper, One)>>
    ELSE <<Zero, alpha>>

\* What submob.pointwise_become_partial(start, lower, upper) can do on a
\* mobject of the given kind: show that part of the path, or, on a mobject
\* that is not path-based, leave it as it is or fail for want of the method.
BecomePartial(kind, shown, bounds) ==
    IF kind = "VMobject" THEN {[raised |-> "none", partial |-> bounds]}
    ELSE {[raised |-> "none", partial |-> shown],
          [raised |-> "AttributeError", partial |-> shown]}

\* begin() of a partial-reveal animation.
PartialBegin ==
    /\ reveal # <<>>
    /\ phase = "constructed"
    /\ raised = "none"
    /\ op' = "begin"
    /\ phase' = "begun"
    /\ calls' = <<>>
    /\ UNCHANGED <<config, nested, loop, removal, solo, extras, animating_status, active_animation,
                   status, events, last_alpha, raised, driver>>

\* ShowPartial.interpolate_submobject(submob, start_submob, alpha)
PartialInterpolate ==
    /\ reveal # <<>>
    /\ phase = "begun"
    /\ raised = "none"
    /\ \E alpha \in Alphas :
        \E out \in BecomePartial(reveal.mobject, partial, get_bounds(reveal, alpha)) :
            /\ partial' = out.partial
            /\ raised' = out.raised
            /\ last_alpha' = alpha
            /\ calls' = <<<<"pointwise_become_partial">> \o get_bounds(reveal, alpha)>>
    /\ op' = "interpolate"
    /\ UNCHANGED <<config, nested, loop, removal, reveal, flows, extras, animating_status,
                   active_animation, status, events, phase, driver>>

\* The alpha the animation is finished at: rate_func(1), the rate function
\* of Uncreate being smooth(1 - t).
FinalAlpha(anim) == IF anim.cls = "Uncreate" THEN smooth(RSub(One, One)) ELSE smooth(One)

\* finish(): the final interpolate, and for ShowPassingFlash the whole path
\* shown again.
PartialFinish ==
    /\ reveal # <<>>
    /\ phase = "begun"
    /\ raised = "none"
    /\ LET bounds == IF reveal.cls = "ShowPassingFlash" THEN <<Zero, One>>
                     ELSE get_bounds(reveal, FinalAlpha(reveal))
       IN  /\ \E out \in BecomePartial(reveal.mobject, partial, bounds) :
                /\ partial' = out.partial
                /\ raised' = out.raised
           /\ calls' = <<<<"pointwise_become_partial">> \o bounds>>
    /\ op' = "finish"
    /\ phase' = "finished"
    /\ UNCHANGED <<config, nested, loop, removal, reveal, flows, extras, animating_status,
                   active_animation, status, events, last_alpha, driver>>

NextPartial == PartialBegin \/ PartialInterpolate \/ PartialFinish

SpecPartial == InitPartial /\ [][NextPartial]_vars

\* ---------------------------------------------------------- PhaseFlow
\* movement.py: PhaseFlow.__init__, run_time: float = 3.0
DEFAULT_PHASE_FLOW_RUN_TIME == RInt(3)

\* The vector fields tried, on a mobject with one coordinate: the constant
\* field 1 and the field p.
Functions == {"one", "identity"}

\* self.function(p)
Apply(function, p) == IF function = "one" THEN One ELSE p

\* One run of a PhaseFlow: the mobject's point, self.last_alpha (NoAlpha
\* while the attribute is not set) and the number of interpolate calls made.
NewRun == [point |-> One, last_alpha |-> NoAlpha, n |-> 0]

\* PhaseFlow.__init__, twice with the same arguments on mobjects in the same
\* state; virtual_time is left None, so it is run_time.
InitPhaseFlow ==
    /\ \E f \in Functions :
        flows = [function |-> f,
                 virtual_time |-> DEFAULT_PHASE_FLOW_RUN_TIME,
                 runs |-> <<NewRun, NewRun>>]
    /\ reveal = <<>>
    /\ partial = <<>>
    /\ op = "__init__"
    /\ phase = "constructed"
    /\ raised = "none"
    /\ calls = <<>>
    /\ events = <<>>
    /\ tree = NoTree
    /\ leaf_calls = <<>>
    /\ NoFlatComposite
    /\ NoUpdater
    /\ NoExtras

\* PhaseFlow.interpolate_mobject(alpha) on one run: the run afterwards.
interpolate_mobject(function, virtual_time, run, alpha) ==
    LET dt == RMul(virtual_time, RSub(alpha, run.last_alpha))
        moved == RAdd(run.point, RMul(dt, Apply(function, run.point)))
    IN  [point |-> IF run.last_alpha # NoAlpha THEN moved ELSE run.point,
         last_alpha |-> alpha,
         n |-> run.n + 1]

\* interpolate(alpha) on one of the two runs (rate_func is linear).
PhaseFlowInterpolate ==
    /\ flows # <<>>
    /\ \E k \in 1..2, alpha \in Alphas :
        /\ flows.runs[k].n < MaxFlowCalls
        /\ flows' = [flows EXCEPT !.runs[k] =
                        interpolate_mobject(flows.function, flows.virtual_time, @, alpha)]
        /\ last_alpha' = alpha
    /\ op' = "interpolate"
    /\ UNCHANGED <<config, nested, loop, removal, reveal, partial, extras, animating_status,
                   active_animation, status, events, calls, phase, raised, driver>>

SpecPhaseFlow == InitPhaseFlow /\ [][PhaseFlowInterpolate]_vars

\* ------------------------------------------- calls made in any order
\* One more call by a driver that keeps to no order.
DriverCall ==
    /\ ncalls < MaxCalls
    /\ ncalls' = ncalls + 1
    /\ UNCHANGED <<from_zero, mono, stepwise>>

AnyBegin == (GroupBeginBody \/ SuccessionBeginBody) /\ DriverCall

AnyInterpolate == (GroupInterpolateBody /\ DriverCall) \/ SuccessionInterpolateBody

AnyFinish == (GroupFinishBody \/ SuccessionFinishBody) /\ DriverCall

\* A composite of any of the three classes with its default lag ratio.
InitAnyOrder ==
    \E c \in {"AnimationGroup", "LaggedStart", "Succession"}, anims \in AnimationLists :
        Construct(c, anims, DefaultLagRatio(c), RInt(-1))

NextAnyOrder == AnyBegin \/ AnyInterpolate \/ AnyFinish

SpecAnyOrder == InitAnyOrder /\ [][NextAnyOrder]_vars

\* ------------------------------------------------- nested composites
\* A plain animation is [cls |-> "Animation", run_time |-> r]; a composite
\* is a record of the attributes __init__ sets (its animations being such
\* records again).  A path is the list of child positions from the root.
Leaf(r) == [cls |-> "Animation", run_time |-> r]

\* anim.get_run_time() of each child of a composite.
NodeRunTimes(children) == [i \in 1..Len(children) |-> children[i].run_time]

\* AnimationGroup.__init__ (and the subclasses' __init__) as a value: the
\* composite of class c built from the given children.
MakeNode(c, children, lag, arg) ==
    LET table == BuildFrom(NodeRunTimes(children), lag, 1, Zero, <<>>)
    IN  [cls |-> c,
         animations |-> children,
         lag_ratio |-> lag,
         anims_with_timings |-> table,
         max_end_time |-> MaxEndTime(table),
         run_time |-> InitRunTime(arg, MaxEndTime(table)),
         animating_status |-> FALSE,
         active_animation |-> 0]

\* The composite's own part of begin / interpolate / finish /
\* update_mobjects, c being <<"begin">>, <<"finish">>, <<"interpolate", alpha>>
\* or <<"update_mobjects", dt>>: the composite afterwards and the calls it
\* makes on its children, in order.
OwnStep(anim, c) ==
    LET n == Len(anim.animations)
        step == SuccessionStep(n, anim.active_animation, c[2])
    IN  IF anim.cls = "Succession"
        THEN CASE c[1] = "begin" ->
                      <<[anim EXCEPT !.active_animation = 1], SuccessionBeginCalls(n)>>
               [] c[1] = "interpolate" ->
                      <<[anim EXCEPT !.active_animation = step[1]], step[2]>>
               [] c[1] = "finish" ->
                      <<anim, SuccessionFinishCalls(anim.active_animation)>>
               [] c[1] = "update_mobjects" ->
                      <<anim, <<<<"update_mobjects", anim.active_animation, c[2]>>>>>>
        ELSE CASE c[1] = "begin" ->
                      <<[anim EXCEPT !.animating_status = TRUE], GroupBeginCalls(n)>>
               [] c[1] = "interpolate" ->
                      <<anim, InterpolateFrom(anim.anims_with_timings, c[2],
                                              anim.max_end_time, 1)>>
               [] c[1] = "finish" ->
                      <<[anim EXCEPT !.animating_status = FALSE], GroupFinishCalls(n)>>
               [] c[1] = "update_mobjects" ->
                      <<anim, [i \in 1..n |-> <<"update_mobjects", i, c[2]>>]>>

RECURSIVE Deliver(_, _, _)
RECURSIVE Dispatch(_, _, _)
\* Variant: a nested composite passes the alpha it receives on to each of
\* its children unchanged.
DeliverFlattened(anim, path, c) ==
    IF anim.cls = "Animation" THEN <<anim, <<<<c[1], path>> \o Tail(c)>>>>
    ELSE LET own == IF c[1] = "interpolate" /\ path # <<>>
                    THEN <<anim, [i \in 1..Len(anim.animations) |->
                                     <<"interpolate", i, c[2]>>]>>
                    ELSE OwnStep(anim, c)
         IN  Dispatch(own[1], path, own[2])

\* anim.begin(), anim.finish() or anim.interpolate(alpha) on the animation at
\* the given path: <<the animation afterwards, the calls that reach leaves>>.
Deliver(anim, path, c) ==
    IF anim.cls = "Animation" THEN <<anim, <<<<c[1], path>> \o Tail(c)>>>>
    ELSE LET own == OwnStep(anim, c) IN Dispatch(own[1], path, own[2])

\* The child calls cs (<<method, child>> or <<"interpolate", child, alpha>>)
\* of the composite at the given path, made in order.
Dispatch(anim, path, cs) ==
    IF cs = <<>> THEN <<anim, <<>>>>
    ELSE LET c == Head(cs)
             i == c[2]
             first == Deliver(anim.animations[i], Append(path, i),
                              <<c[1]>> \o SubSeq(c, 3, Len(c)))
             rest == Dispatch([anim EXCEPT !.animations[i] = first[1]], path, Tail(cs))
         IN  <<rest[1], first[2] \o rest[2]>>

\* begin() on the root of the tree.
TreeBegin ==
    /\ tree # NoTree
    /\ phase = "constructed"
    /\ LET r == Deliver(tree, <<>>, <<"begin">>)
       IN  tree' = r[1] /\ leaf_calls' = r[2]
    /\ op' = "begin"
    /\ phase' = "begun"
    /\ repeated' = FALSE
    /\ UNCHANGED <<config, outside, animating_status, active_animation, status, events,
                   calls,
                   last_alpha, raised, driver>>

\* interpolate(alpha) on the root of the tree.
TreeInterpolate ==
    /\ tree # NoTree
    /\ phase = "begun"
    /\ \E alpha \in Alphas :
        LET r == Deliver(tree, <<>>, <<"interpolate", alpha>>)
        IN  /\ tree' = r[1]
            /\ leaf_calls' = r[2]
            /\ last_alpha' = alpha
            /\ repeated' = (op = "interpolate" /\ last_alpha = alpha)
    /\ op' = "interpolate"
    /\ UNCHANGED <<config, outside, animating_status, active_animation, status, events,
                   calls,
                   phase, raised, driver>>

\* finish() on the root of the tree.
TreeFinish ==
    /\ tree # NoTree
    /\ phase = "begun"
    /\ LET r == Deliver(tree, <<>>, <<"finish">>)
       IN  tree' = r[1] /\ leaf_calls' = r[2]
    /\ op' = "finish"
    /\ phase' = "finished"
    /\ repeated' = FALSE
    /\ UNCHANGED <<config, outside, animating_status, active_animation, status, events,
                   calls,
                   last_alpha, raised, driver>>

\* Class and lag ratio of the composites of a tree: an AnimationGroup with
\* lag ratio 1/2, and LaggedStart and Succession with their default lag ratio.
NodeKinds ==
    {<<"AnimationGroup", Rat(1, 2)>>}
        \cup {<<c, DefaultLagRatio(c)>> : c \in {"LaggedStart", "Succession"}}

\* Child lists of plain animations: one or two of any run time.
LeafLists ==
    LET leaves == {Leaf(RInt(r)) : r \in 0..MaxRunTime}
    IN  {<<a>> : a \in leaves} \cup {<<a, b>> : a, b \in leaves}

RECURSIVE Composites(_)
\* The composites nested at most d deep: children are plain animations, or
\* one composite next to a plain animation of run time 1.
Composites(d) ==
    IF d = 0 THEN {}
    ELSE LET deeper == Composites(d - 1)
             lists == LeafLists \cup {<<N, Leaf(One)>> : N \in deeper}
                                \cup {<<Leaf(One), N>> : N \in deeper}
         IN  {MakeNode(k[1], l, k[2], RInt(-1)) : k \in NodeKinds, l \in lists}

\* A tree of composites, built and not yet begun.
InitTree ==
    /\ tree \in Composites(MaxDepth)
    /\ leaf_calls = <<>>
    /\ repeated = FALSE
    /\ cls = "None"
    /\ animations = <<>>
    /\ lag_ratio = Zero
    /\ run_time_arg = RInt(-1)
    /\ anims_with_timings = <<>>
    /\ max_end_time = Zero
    /\ run_time = Zero
    /\ animating_status = FALSE
    /\ active_animation = 0
    /\ status = <<>>
    /\ events = <<>>
    /\ calls = <<>>
    /\ op = "__init__"
    /\ last_alpha = NoAlpha
    /\ phase = "constructed"
    /\ raised = "none"
    /\ ncalls = 0
    /\ from_zero = FALSE
    /\ mono = TRUE
    /\ stepwise = TRUE
    /\ NoUpdater
    /\ NoLeaf
    /\ NoExtras
    /\ remover = FALSE
    /\ child_anims = <<>>
    /\ scene = {}

NextTree == TreeBegin \/ TreeInterpolate \/ TreeFinish

SpecTree == InitTree /\ [][NextTree]_vars

\* ------------------------------------------------------ updater loop
\* The dt a frame hands to the updater: none, a fraction, or whole seconds.
Dts == {Zero, Rat(1, DtDen)} \cup {RInt(k) : k \in 1..MaxDt}

\* Plain animations of any run time.
PlainAnimations == {Leaf(RInt(r)) : r \in 0..MaxRunTime}

\* The animations handed to turn_animation_into_updater: a plain animation
\* or a composite of plain animations.
UpdaterAnimations == PlainAnimations \cup Composites(1)

\* The lifecycle calls among calls that reached leaves.
LeafLifecycle(cs) == SelectSeq(cs, LAMBDA c : c[1] \in {"begin", "finish"})

\* turn_animation_into_updater(animation, cycle): the state when it returns.
\* calls holds what the updater called on the animation in its last run,
\* leaf_calls what reached the leaves then, events every begin and finish
\* that has reached a leaf.
InitUpdaterOn(anims) ==
    /\ \E anim \in anims :
        LET r == Deliver(anim, <<>>, <<"begin">>)
        IN  /\ tree = r[1]
            /\ leaf_calls = r[2]
            /\ events = LeafLifecycle(r[2])
    /\ calls = <<<<"begin">>>>
    /\ total_time = Zero
    /\ has_updater = TRUE
    /\ cycle \in BOOLEAN
    /\ op = "turn_animation_into_updater"
    /\ phase = "begun"
    /\ raised = "none"
    /\ NoFlatComposite
    /\ NoLeaf
    /\ NoExtras

InitUpdater == InitUpdaterOn(UpdaterAnimations)

\* Variant: alpha = clip(time_ratio, 0, 1) also when cycle is set.
UpdaterAlphaClipped(ratio, cyc) == clip(ratio, Zero, One)

\* alpha = time_ratio % 1 if cycle else clip(time_ratio, 0, 1)
UpdaterAlpha(ratio, cyc) ==
    IF cyc THEN RSub(ratio, RInt(RFloor(ratio))) ELSE clip(ratio, Zero, One)

\* Variant: animation.total_time is left as it is.
TotalTimeKept(total, dt) == total

\* animation.total_time += dt
TotalTimeAfter(total, dt) == RAdd(total, dt)

\* Variant: the updater stays on the mobject after animation.finish().
UpdaterKept == TRUE

\* Whether the updater is still on the mobject after m.remove_updater(update).
UpdaterAfterRemove == FALSE

\* Variant: animation.interpolate(1) is called before animation.finish().
CompletionCallsWithInterpolate == <<<<"interpolate", One>>, <<"finish">>>>

\* What the updater calls on the animation once alpha >= 1.
CompletionCalls == <<<<"finish">>>>

RECURSIVE DeliverAll(_, _)
\* The calls cs made on the animation in order: <<the animation afterwards,
\* the calls that reached leaves>>.
DeliverAll(anim, cs) ==
    IF cs = <<>> THEN <<anim, <<>>>>
    ELSE LET first == Deliver(anim, <<>>, Head(cs))
             rest == DeliverAll(first[1], Tail(cs))
         IN  <<rest[1], first[2] \o rest[2]>>

\* update(m, dt), the function turn_animation_into_updater adds to the
\* mobject's updaters.  time_ratio, alpha and the outcome of the calls are
\* each computed once, as values.
Update(dt) ==
    /\ tree # NoTree
    /\ has_updater
    /\ raised = "none"
    /\ cycle => RLess(total_time, RInt(MaxTotalTime))
    /\ op' = "update"
    /\ \E ratio \in {time_ratio(total_time, tree.run_time)} :
        IF ratio = ZeroDivisionError
        THEN /\ raised' = "ZeroDivisionError"
             /\ calls' = <<>>
             /\ leaf_calls' = <<>>
             /\ UNCHANGED <<tree, events, total_time, has_updater, phase>>
        ELSE \E alpha \in {UpdaterAlpha(ratio, cycle)} :
             LET done == ~cycle /\ ~RLess(alpha, One)
                 made == IF done THEN CompletionCalls
                         ELSE <<<<"interpolate", alpha>>, <<"update_mobjects", dt>>>>
             IN  \E r \in {DeliverAll(tree, made)} :
                     /\ calls' = made
                     /\ tree' = r[1]
                     /\ leaf_calls' = r[2]
                     /\ events' = events \o LeafLifecycle(r[2])
                     /\ has_updater' = IF done THEN UpdaterAfterRemove ELSE TRUE
                     /\ phase' = IF done THEN "finished" ELSE phase
                     /\ total_time' = IF done THEN total_time
                                      ELSE TotalTimeAfter(total_time, dt)
                     /\ UNCHANGED raised
    /\ UNCHANGED <<config, removal, solo, extras, cycle, animating_status, active_animation,
                   status, last_alpha, repeated, driver>>

\* The mobject is updated with any dt.
UpdaterTick == \E dt \in Dts : Update(dt)

\* The mobject is updated with a dt that is not zero.
PositiveTick == \E dt \in Dts \ {Zero} : Update(dt)

SpecUpdater == InitUpdater /\ [][UpdaterTick]_vars

\* The updater of a plain animation when every frame updates the mobject
\* and time passes between frames.
InitPlainUpdater == InitUpdaterOn(PlainAnimations)

SpecUpdaterFair == InitPlainUpdater /\ [][UpdaterTick]_vars /\ WF_vars(PositiveTick)

\* ------------------------------------------------- the whole lifecycle
\* AnimationGroup.update_mobjects(dt): every child is updated;
\* Succession.update_mobjects(dt): the active child is.
UpdateMobjects ==
    /\ cls \in {"AnimationGroup", "LaggedStart", "Succession"}
    /\ phase = "begun"
    /\ raised = "none"
    /\ \E dt \in Dts :
        calls' = IF cls = "Succession"
                 THEN <<<<"update_mobjects", active_animation, dt>>>>
                 ELSE [i \in 1..Len(animations) |-> <<"update_mobjects", i, dt>>]
    /\ op' = "update_mobjects"
    /\ UNCHANGED <<config, nested, outside, animating_status, active_animation, status,
                   events, last_alpha, phase, raised, driver>>

\* A composite of any of the three classes with its default lag ratio, its
\* children each on a mobject of its own, all in the scene.
InitLifecycle ==
    \E c \in {"AnimationGroup", "LaggedStart", "Succession"}, anims \in AnimationLists :
        /\ ConstructComposite(c, anims, DefaultLagRatio(c), RInt(-1))
        /\ remover = FALSE
        /\ child_anims = [i \in 1..Len(anims) |-> ChildAnim(i, TRUE)]
        /\ scene = 1..Len(anims)

NextLifecycle ==
    \/ GroupBegin
    \/ GroupInterpolate
    \/ GroupFinish
    \/ SuccessionBegin
    \/ SuccessionInterpolate
    \/ SuccessionFinish
    \/ UpdateMobjects
    \/ CleanUpFromScene

SpecLifecycle == InitLifecycle /\ [][NextLifecycle]_vars

\* ------------------------------------------------ ShowIncreasingSubsets
\* np.ceil, np.floor and np.round (halves to the even neighbour) followed by
\* int(), on a non-negative value.
RCeil(x) == (x[1] + x[2] - 1) \div x[2]
RRound(x) ==
    LET low == RFloor(x)
        twice == 2 * (x[1] - low * x[2])
    IN  IF twice < x[2] THEN low
        ELSE IF twice > x[2] THEN low + 1
        ELSE IF low % 2 = 0 THEN low ELSE low + 1
ApplyIntFunc(f, x) ==
    CASE f = "ceil" -> RCeil(x)
      [] f = "floor" -> RFloor(x)
      [] f = "round" -> RRound(x)

\* self.rate_func(alpha)
ApplyRateFunc(f, alpha) == IF f = "smooth" THEN smooth(alpha) ELSE alpha

\* all_submobs[:index]
Prefix(q, index) == [i \in 1..(IF index < Len(q) THEN index ELSE Len(q)) |-> q[i]]

\* ShowSubmobjectsOneByOne.update_submobject_list(index); all_submobs[-2]
\* of an empty list raises IndexError.
OneByOne(index) ==
    LET clipped == RFloor(clip(RInt(index), Zero, RInt(Len(all_submobs) - 1)))
    IN  IF clipped = 0 THEN [raised |-> "none", submobjects |-> <<>>]
        ELSE IF clipped < 0 THEN [raised |-> "IndexError", submobjects |-> submobjects]
        ELSE [raised |-> "none", submobjects |-> <<all_submobs[clipped]>>]

\* update_submobject_list(index) of the animation's class.
update_submobject_list(index) ==
    IF cls = "ShowSubmobjectsOneByOne" THEN OneByOne(index)
    ELSE [raised |-> "none", submobjects |-> Prefix(all_submobs, index)]

\* ShowIncreasingSubsets.interpolate_mobject(alpha)
SubsetsInterpolateMobject(alpha) ==
    LET n_submobs == Len(all_submobs)
        index == ApplyIntFunc(int_func, RMul(ApplyRateFunc(rate_func, alpha), RInt(n_submobs)))
        out == update_submobject_list(index)
    IN  /\ submobjects' = out.submobjects
        /\ raised' = out.raised
        /\ calls' = <<<<"update_submobject_list", index>>>>
        /\ last_alpha' = alpha

\* ShowIncreasingSubsets.__init__ and ShowSubmobjectsOneByOne.__init__ on a
\* group of up to MaxChildren submobjects, with the class's default int_func
\* or another, and the default rate function or linear.
InitSubsets ==
    /\ \E c \in {"ShowIncreasingSubsets", "ShowSubmobjectsOneByOne"} : cls = c
    /\ \E n \in 0..MaxChildren :
        /\ all_submobs = [i \in 1..n |-> i]
        /\ submobjects = [i \in 1..n |-> i]
    /\ int_func \in {"ceil", "floor", "round"}
    /\ rate_func \in {"smooth", "linear"}
    /\ animations = <<>>
    /\ lag_ratio = Zero
    /\ run_time_arg = RInt(-1)
    /\ anims_with_timings = <<>>
    /\ max_end_time = Zero
    /\ run_time = One
    /\ animating_status = FALSE
    /\ active_animation = 0
    /\ status = <<>>
    /\ last_alpha = NoAlpha
    /\ ncalls = 0
    /\ from_zero = FALSE
    /\ mono = TRUE
    /\ stepwise = TRUE
    /\ repeated = FALSE
    /\ remover = FALSE
    /\ child_anims = <<>>
    /\ scene = {}
    /\ op = "__init__"
    /\ phase = "constructed"
    /\ raised = "none"
    /\ calls = <<>>
    /\ events = <<>>
    /\ tree = NoTree
    /\ leaf_calls = <<>>
    /\ NoUpdater
    /\ NoLeaf
    /\ group = <<>>
    /\ group_arg = <<>>
    /\ NoDispatcher

\* begin(): the mobject is put at interpolate(0).
SubsetsBegin ==
    /\ int_func # "None"
    /\ phase = "constructed"
    /\ SubsetsInterpolateMobject(Zero)
    /\ op' = "begin"
    /\ phase' = "begun"
    /\ UNCHANGED <<config, nested, loop, removal, solo, group, group_arg, dispatcher,
                   all_submobs, int_func, rate_func, animating_status, active_animation,
                   status, events, driver>>

\* interpolate(alpha)
SubsetsInterpolate ==
    /\ int_func # "None"
    /\ phase = "begun"
    /\ raised = "none"
    /\ \E alpha \in Alphas : SubsetsInterpolateMobject(alpha)
    /\ op' = "interpolate"
    /\ UNCHANGED <<config, nested, loop, removal, solo, group, group_arg, dispatcher,
                   all_submobs, int_func, rate_func, animating_status, active_animation,
                   status, events, phase, driver>>

\* finish(): interpolate(1)
SubsetsFinish ==
    /\ int_func # "None"
    /\ phase = "begun"
    /\ raised = "none"
    /\ SubsetsInterpolateMobject(One)
    /\ op' = "finish"
    /\ phase' = "finished"
    /\ UNCHANGED <<config, nested, loop, removal, solo, group, group_arg, dispatcher,
                   all_submobs, int_func, rate_func, animating_status, active_animation,
                   status, events, driver>>

NextSubsets == SubsetsBegin \/ SubsetsInterpolate \/ SubsetsFinish

SpecSubsets == InitSubsets /\ [][NextSubsets]_vars

\* ------------------------------------------------------ EventDispatcher
\* Largest number of listeners registered at a time.
MaxListeners == 2

\* event_type.py: EventType, and the members whose value starts with
\* 'mouse' and with 'key'.
EventTypes ==
    {"MouseMotionEvent", "MousePressEvent", "MouseReleaseEvent", "MouseDragEvent",
     "MouseScrollEvent", "KeyPressEvent", "KeyReleaseEvent"}
MouseEvents ==
    {"MouseMotionEvent", "MousePressEvent", "MouseReleaseEvent", "MouseDragEvent",
     "MouseScrollEvent"}
KeyEvents == {"KeyPressEvent", "KeyReleaseEvent"}

\* The points and key symbols of the events tried and the mobjects listened
\* on. Each mobject has one callback for its listeners: mobject 1's returns
\* None and mobject 2's returns False.
Points == {0, 1}
Symbols == {65}
Mobjects == {1, 2}
CallbackOf(mobject) == IF mobject = 1 THEN "pass" ELSE "stop"

\* callback(mobject, event_data)
CallbackReturn(cb) ==
    CASE cb = "pass" -> "None"
      [] cb = "stop" -> "False"

\* mobject.is_point_touching(point): mobject 1 lies on point 0, mobject 2 on
\* both points.
IsPointTouching(mobject, point) == point < mobject

\* EventListener.__init__: the listeners tried, on three of the event types.
\* Records are equal exactly when EventListener.__eq__ holds: equal callback,
\* mobject and event_type.
Listeners ==
    {[mobject |-> m, event_type |-> t, callback |-> CallbackOf(m)] :
        m \in Mobjects, t \in {"MouseDragEvent", "MousePressEvent", "KeyPressEvent"}}

\* get_listners_count()
ListnersCount == LET Count(t) == Len(event_listners[t])
                 IN  Count("MouseMotionEvent") + Count("MousePressEvent")
                     + Count("MouseReleaseEvent") + Count("MouseDragEvent")
                     + Count("MouseScrollEvent") + Count("KeyPressEvent")
                     + Count("KeyReleaseEvent")

\* EventDispatcher.__init__
InitDispatcher ==
    /\ event_listners = [t \in EventTypes |-> <<>>]
    /\ mouse_point = 0
    /\ mouse_drag_point = 0
    /\ pressed_keys = {}
    /\ draggable_object_listners = <<>>
    /\ event = <<>>
    /\ returned = "None"
    /\ seen = <<>>
    /\ removed = {}
    /\ last_press = [pressed |-> FALSE, touching |-> <<>>]
    /\ op = "__init__"
    /\ phase = "constructed"
    /\ raised = "none"
    /\ calls = <<>>
    /\ events = <<>>
    /\ tree = NoTree
    /\ leaf_calls = <<>>
    /\ NoFlatComposite
    /\ NoUpdater
    /\ NoLeaf
    /\ NoSubsets
    /\ group = <<>>
    /\ group_arg = <<>>

\* What an operation of the dispatcher leaves alone.
NotDispatcher ==
    <<config, nested, loop, removal, solo, group, group_arg, subsets, animating_status,
      active_animation, status, events, last_alpha, phase, raised, driver>>

\* add_listner(event_listner)
AddListner ==
    /\ event_listners # <<>>
    /\ ListnersCount < MaxListeners
    /\ \E l \in Listeners :
        /\ event_listners' = [event_listners EXCEPT ![l.event_type] = Append(@, l)]
        /\ removed' = removed \ {l}
    /\ op' = "add_listner"
    /\ calls' = <<>>
    /\ UNCHANGED <<mouse_point, mouse_drag_point, pressed_keys, draggable_object_listners,
                   event, returned, seen, last_press>>
    /\ UNCHANGED NotDispatcher

\* The list without the elements equal to l:
\* while event_listner in list: list.remove(event_listner)
WithoutListner(list, l) == LET Other(x) == x # l IN SelectSeq(list, Other)

\* The listener is in the list.
Registered(list, l) == \E k \in 1..Len(list) : list[k] = l

\* remove_listner(event_listner), of a listener that is registered
RemoveListner ==
    /\ event_listners # <<>>
    /\ \E l \in Listeners :
        /\ Registered(event_listners[l.event_type], l)
        /\ event_listners' =
               [event_listners EXCEPT ![l.event_type] = WithoutListner(@, l)]
        /\ removed' = {l}
    /\ op' = "remove_listner"
    /\ calls' = <<>>
    /\ UNCHANGED <<mouse_point, mouse_drag_point, pressed_keys, draggable_object_listners,
                   event, returned, seen, last_press>>
    /\ UNCHANGED NotDispatcher

\* The listeners of the list whose mobject touches the point.
TouchingListners(list, point) ==
    LET Touches(l) == IsPointTouching(l.mobject, point) IN SelectSeq(list, Touches)

\* Variant: every listener of the list, touching or not.
AllListnersDraggable(list, point) == list

\* draggable_object_listners after a MousePressEvent.
DraggableAtPress(list, point) == TouchingListners(list, point)

\* draggable_object_listners after a MouseReleaseEvent.
DraggableAtRelease(list) == <<>>

RECURSIVE CallAll(_, _)
\* Variant: every listener from the i-th on is called, whatever is returned.
CallAll(list, i) == IF i > Len(list) THEN <<>> ELSE <<list[i]>> \o CallAll(list, i + 1)

RECURSIVE CallUntilFalse(_, _)
\* The loop over the listeners from the i-th on: the listeners whose
\* callback is called, in order, the last being the first that returns False.
CallUntilFalse(list, i) ==
    IF i > Len(list) THEN <<>>
    ELSE IF CallbackReturn(list[i].callback) = "False" THEN <<list[i]>>
    ELSE <<list[i]>> \o CallUntilFalse(list, i + 1)

\* dispatch's return value: propagate_event after the loop.
Propagate(called) ==
    IF called = <<>> THEN "None" ELSE CallbackReturn(called[Len(called)].callback)

\* The event data tried with an event type: the point matters to
\* MouseMotionEvent and MouseDragEvent only and is 0 in the others, the
\* symbol belongs to the key events and is 0 in the others.
PointsOf(t) == IF t \in {"MouseMotionEvent", "MouseDragEvent"} THEN Points ELSE {0}
SymbolsOf(t) == IF t \in KeyEvents THEN Symbols ELSE {0}

\* dispatch(event_type, point = point, symbol = symbol)
DispatchEvent ==
    /\ event_listners # <<>>
    /\ \E t \in EventTypes : \E point \in PointsOf(t), symbol \in SymbolsOf(t) :
        LET mp == IF t = "MouseMotionEvent" THEN point ELSE mouse_point
            dp == IF t = "MouseDragEvent" THEN point ELSE mouse_drag_point
            keys == CASE t = "KeyPressEvent" -> pressed_keys \cup {symbol}
                      [] t = "KeyReleaseEvent" -> pressed_keys \ {symbol}
                      [] OTHER -> pressed_keys
            drag == CASE t = "MousePressEvent" ->
                             DraggableAtPress(event_listners["MouseDragEvent"], mp)
                      [] t = "MouseReleaseEvent" ->
                             DraggableAtRelease(draggable_object_listners)
                      [] OTHER -> draggable_object_listners
            eligible == IF t = "MouseDragEvent" THEN drag
                        ELSE IF t \in MouseEvents
                        THEN TouchingListners(event_listners[t], mp)
                        ELSE event_listners[t]
            called == CallUntilFalse(eligible, 1)
        IN  /\ mouse_point' = mp
            /\ mouse_drag_point' = dp
            /\ pressed_keys' = keys
            /\ draggable_object_listners' = drag
            /\ calls' = called
            /\ returned' = Propagate(called)
            /\ seen' = IF called = <<>> THEN <<>> ELSE <<mp, dp, keys, drag>>
            /\ event' = <<t, point, symbol>>
            /\ last_press' =
                  CASE t = "MousePressEvent" ->
                           [pressed |-> TRUE,
                            touching |-> TouchingListners(event_listners["MouseDragEvent"], mp)]
                    [] t = "MouseReleaseEvent" -> [pressed |-> FALSE, touching |-> <<>>]
                    [] OTHER -> last_press
    /\ op' = "dispatch"
    /\ UNCHANGED <<event_listners, removed>>
    /\ UNCHANGED NotDispatcher

NextDispatcher == AddListner \/ RemoveListner \/ DispatchEvent

SpecDispatcher == InitDispatcher /\ [][NextDispatcher]_vars

\* ------------------------------------------------------- LaggedStartMap
\* The sequences of n distinct elements of S.
Orderings(S, n) == {q \in [1..n -> S] : \A i, j \in 1..n : q[i] = q[j] => i = j}

\* The group arguments tried: a Group of up to MaxChildren submobjects, in
\* any order.
Collections ==
    {[made_by |-> "caller", submobjects |-> q] :
        q \in UNION {Orderings(1..MaxChildren, n) : n \in 0..MaxChildren}}

\* The anim_func arguments tried: a constructor of animations of one run
\* time, removers or not, on the mobject it is given.
AnimFuncs == [run_time : 1..MaxRunTime, remover : BOOLEAN]

\* anim_func(submob, **anim_kwargs)
ApplyAnimFunc(f, submob) == ChildAnim(submob, f.remover)

\* The run_time LaggedStartMap passes on when none is given.
DEFAULT_LAGGED_START_MAP_RUN_TIME == RInt(2)

\* The choice of self.group in AnimationGroup.__init__: the group argument
\* when one is given (NoGroup: None), else a new Group of the children's
\* mobjects.
NoGroup == <<>>
GroupOrNew(g, mobs) ==
    IF g # NoGroup THEN g ELSE [made_by |-> "AnimationGroup", submobjects |-> mobs]

\* LaggedStartMap.__init__(anim_func, group, lag_ratio = lag): one
\* anim_func call per element of the group, the results unpacked as the
\* positional arguments of LaggedStart.__init__ with group = group. With no
\* positional argument args[0] raises IndexError and nothing is built.
\* The composite has the methods of LaggedStart, all inherited.
InitMap ==
    \E f \in AnimFuncs, g \in Collections, lag \in {DEFAULT_LAGGED_START_LAG_RATIO, One} :
        LET children == [i \in 1..Len(g.submobjects) |-> ApplyAnimFunc(f, g.submobjects[i])]
            anims == [i \in 1..Len(children) |-> f.run_time]
        IN  /\ group_arg = g
            /\ NoSubsets
            /\ NoDispatcher
            /\ IF Len(children) = 0
               THEN /\ NoFlatComposite
                    /\ group = NoGroup
                    /\ events = <<>>
                    /\ calls = <<>>
                    /\ op = "__init__"
                    /\ phase = "failed"
                    /\ raised = "IndexError"
                    /\ tree = NoTree
                    /\ leaf_calls = <<>>
                    /\ NoUpdater
                    /\ NoLeaf
               ELSE /\ ConstructAnimations("LaggedStart", anims, lag,
                                           DEFAULT_LAGGED_START_MAP_RUN_TIME)
                    /\ group = GroupOrNew(g, [i \in 1..Len(children) |-> children[i].mobject])
                    /\ remover = FALSE
                    /\ child_anims = children
                    /\ scene = {g.submobjects[i] : i \in 1..Len(g.submobjects)}

NextMap ==
    \/ GroupBegin
    \/ GroupInterpolate
    \/ GroupFinish
    \/ CleanUpFromScene

SpecMap == InitMap /\ [][NextMap]_vars

\* ================================================================ claims
NumChildren == Len(animations)
Children == 1..NumChildren
IsGroup == cls \in {"AnimationGroup", "LaggedStart"}
StartTime(i) == anims_with_timings[i][2]
EndTime(i) == anims_with_timings[i][3]
\* The group-local time of the latest interpolate call.
LastTime == RMul(last_alpha, max_end_time)
RLeq(x, y) == ~RLess(y, x)
\* How many times the call c occurs in the log.
NumCalls(log, c) == Len(SelectSeq(log, LAMBDA d : d = c))
\* The interpolate calls among the calls of the last operation.
InterpolateCalls == SelectSeq(calls, LAMBDA c : c[1] = "interpolate")

RECURSIVE PairsFrom(_, _)
\* begin i, finish i, ..., begin n, finish n.
PairsFrom(i, n) ==
    IF i > n THEN <<>> ELSE <<<<"begin", i>>, <<"finish", i>>>> \o PairsFrom(i + 1, n)

\* C1: the timing table lists the children in order with start_1 = 0,
\* end_i = start_i + run_time_i and start_{i+1} = start_i + lag_ratio *
\* (end_i - start_i); with lag_ratio = 1 each child starts when the previous
\* one ends, and with equal run times d child i (0-based) starts at
\* i * d * lag_ratio.
C1_TimingTable ==
    /\ Len(anims_with_timings) = NumChildren
    /\ \A i \in Children :
        /\ anims_with_timings[i][1] = i
        /\ EndTime(i) = RAdd(StartTime(i), RInt(animations[i]))
        /\ (i = 1) => StartTime(i) = Zero
        /\ (i < NumChildren) =>
               StartTime(i + 1) =
                   RAdd(StartTime(i), RMul(lag_ratio, RSub(EndTime(i), StartTime(i))))
        /\ (i < NumChildren /\ lag_ratio = One) => StartTime(i + 1) = EndTime(i)
        /\ (\A j \in Children : animations[j] = animations[1]) =>
               StartTime(i) = RMul(RInt((i - 1) * animations[1]), lag_ratio)

\* Three children of run time 1 with lag_ratio 1/2: starts 0, 1/2, 1, ends
\* 1, 3/2, 2, max_end_time 2.
C1_Witness ==
    /\ animations = <<1, 1, 1>>
    /\ lag_ratio = Rat(1, 2)
    /\ anims_with_timings = <<<<1, Zero, One>>, <<2, Rat(1, 2), Rat(3, 2)>>,
                              <<3, One, RInt(2)>>>>
    /\ max_end_time = RInt(2)

\* C2: every AnimationGroup.interpolate(alpha) calls interpolate on every
\* child exactly once, in list order, and nothing else; a child whose interval
\* is not degenerate receives clip((alpha * max_end_time - start) / (end -
\* start), 0, 1), whether or not its interval has started or ended.
C2_VisitsEveryChild ==
    (IsGroup /\ op = "interpolate") =>
        /\ Len(calls) = NumChildren
        /\ \A i \in Children :
            /\ calls[i][1] = "interpolate"
            /\ calls[i][2] = i
            /\ (StartTime(i) # EndTime(i)) =>
                   calls[i][3] =
                       clip(RDiv(RSub(LastTime, StartTime(i)),
                                 RSub(EndTime(i), StartTime(i))), Zero, One)

\* An interpolate call at which one child's interval has already ended, one
\* is under way and one has not started yet.
C2_Witness ==
    /\ IsGroup /\ op = "interpolate"
    /\ \E i, j, k \in Children :
        /\ StartTime(i) # EndTime(i) /\ RLess(EndTime(i), LastTime)
        /\ StartTime(j) # EndTime(j) /\ RLess(LastTime, StartTime(j))
        /\ RLess(Zero, calls[k][3]) /\ RLess(calls[k][3], One)

\* C3: in a Succession at most one child is Begun but not Finished, whatever
\* alphas interpolate was called with and in whatever order.
C3_AtMostOneBegun ==
    (cls = "Succession") => Cardinality({i \in Children : status[i] = "Begun"}) <= 1

\* After alphas that went backward: one child Begun, another already Finished.
C3_Witness ==
    /\ cls = "Succession" /\ phase = "begun" /\ ~mono
    /\ \E i, j \in Children : status[i] = "Begun" /\ status[j] = "Finished"

\* C4: in a Succession each child receives begin() at most once and finish()
\* at most once, also when alpha jumps backward or forward.
C4_BeginFinishAtMostOnce ==
    (cls = "Succession") =>
        \A i \in Children :
            /\ NumCalls(events, <<"begin", i>>) <= 1
            /\ NumCalls(events, <<"finish", i>>) <= 1

\* C5 as stated: begin(), interpolate at non-decreasing alphas going from 0 to
\* 1, finish() gives one begin / finish pair per child, in child order.
C5_OnePairPerChild ==
    (cls = "Succession" /\ phase = "finished" /\ ncalls >= 1
        /\ from_zero /\ mono /\ last_alpha = One) =>
        events = PairsFrom(1, NumChildren)

\* C5 amended: begin(), interpolate at non-decreasing alphas ending at 1 none
\* of which resolves a child other than the active one or its successor (no
\* child is skipped), finish() gives one begin / finish pair per child, in
\* child order.
C5_OnePairPerChildStepwise ==
    (cls = "Succession" /\ phase = "finished" /\ ncalls >= 1
        /\ mono /\ stepwise /\ last_alpha = One) =>
        events = PairsFrom(1, NumChildren)

\* Three children driven at 0, then into the second child, then 1, and finished.
C5_Witness ==
    /\ cls = "Succession" /\ phase = "finished" /\ NumChildren = 3
    /\ from_zero /\ mono /\ stepwise /\ last_alpha = One
    /\ events = <<<<"begin", 1>>, <<"finish", 1>>, <<"begin", 2>>, <<"finish", 2>>,
                  <<"begin", 3>>, <<"finish", 3>>>>

\* C6: AnimationGroup.begin calls begin on every child once, in list order,
\* AnimationGroup.finish calls finish on every child once, in list order, and
\* between the two every child is Begun.
C6_GroupLifecycle ==
    IsGroup =>
        /\ (op = "begin") =>
               /\ Len(calls) = NumChildren
               /\ \A i \in Children : calls[i] = <<"begin", i>>
        /\ (op = "finish") =>
               /\ Len(calls) = NumChildren
               /\ \A i \in Children : calls[i] = <<"finish", i>>
        /\ (phase = "begun") =>
               \A i \in Children :
                   /\ status[i] = "Begun"
                   /\ NumCalls(events, <<"begin", i>>) = 1
                   /\ NumCalls(events, <<"finish", i>>) = 0
        /\ (phase = "finished") =>
               \A i \in Children :
                   /\ status[i] = "Finished"
                   /\ NumCalls(events, <<"begin", i>>) = 1
                   /\ NumCalls(events, <<"finish", i>>) = 1

\* A group of several children that was begun, interpolated and finished.
C6_Witness ==
    /\ IsGroup /\ op = "finish" /\ NumChildren >= 2 /\ last_alpha # NoAlpha

\* C7: after Succession.begin() child 0 has been begun and is the active
\* child, and no other child has received begin().
C7_OnlyFirstBegun ==
    (cls = "Succession" /\ op = "begin" /\ raised = "none") =>
        /\ active_animation = 1
        /\ status[1] = "Begun"
        /\ events = <<<<"begin", 1>>>>
        /\ \A i \in Children \ {1} : status[i] = "NotStarted"

\* A Succession of several children right after begin().
C7_Witness ==
    /\ cls = "Succession" /\ op = "begin" /\ phase = "begun" /\ NumChildren >= 2

\* C8: Succession.interpolate(alpha) interpolates exactly one child, the one
\* of index floor(alpha * n) clamped to [0, n - 1], with local alpha
\* alpha * n - index; alpha = 1 selects the last child with local alpha 1.
C8_IndexAndLocalAlpha ==
    (cls = "Succession" /\ op = "interpolate") =>
        /\ Len(InterpolateCalls) = 1
        /\ LET index == InterpolateCalls[1][2] - 1
               scaled == RMul(last_alpha, RInt(NumChildren))
           IN  /\ index \in 0..(NumChildren - 1)
               /\ RLeq(RInt(index), scaled)
               /\ RLess(scaled, RInt(index + 1)) \/ index = NumChildren - 1
               /\ InterpolateCalls[1][3] = RSub(scaled, RInt(index))
               /\ active_animation = index + 1
               /\ (last_alpha = One) =>
                      InterpolateCalls[1] = <<"interpolate", NumChildren, One>>

\* A three-child Succession whose second child is active, driven at alpha = 1.
C8_Witness ==
    /\ cls = "Succession" /\ op = "interpolate" /\ NumChildren = 3
    /\ last_alpha = One
    /\ calls = <<<<"finish", 2>>, <<"begin", 3>>, <<"interpolate", 3, One>>>>

\* C9: a Succession (lag_ratio 1, children of positive run time) interpolates
\* the child whose [start_time, end_time] interval of the timing table
\* contains alpha * max_end_time, with the elapsed fraction of that interval
\* as local alpha.
C9_FollowsTimingTable ==
    (cls = "Succession" /\ op = "interpolate" /\ lag_ratio = One
        /\ \A i \in Children : animations[i] > 0) =>
        LET child == InterpolateCalls[1][2]
        IN  /\ RLeq(StartTime(child), LastTime)
            /\ RLeq(LastTime, EndTime(child))
            /\ InterpolateCalls[1][3] =
                   RDiv(RSub(LastTime, StartTime(child)),
                        RSub(EndTime(child), StartTime(child)))

\* C10: in an AnimationGroup or LaggedStart a child whose interval is
\* degenerate receives local alpha 0 on every interpolate call, and no
\* division by zero is raised.
C10_DegenerateChild ==
    (IsGroup /\ op = "interpolate") =>
        /\ raised = "none"
        /\ \A i \in Children :
               (StartTime(i) = EndTime(i)) =>
                   /\ Len(calls) >= i
                   /\ calls[i] = <<"interpolate", i, Zero>>

\* A LaggedStart driven at alpha = 1 with a zero-run-time child that starts
\* before the group ends.
C10_Witness ==
    /\ cls = "LaggedStart" /\ op = "interpolate" /\ last_alpha = One
    /\ \E i \in Children :
        /\ animations[i] = 0
        /\ RLess(StartTime(i), LastTime)
        /\ calls[i] = <<"interpolate", i, Zero>>

\* C11: a child of run time 0 inside a Succession is driven with local alpha
\* exactly 0 by every Succession.interpolate call, whatever the parent alpha.
C11_ZeroDurationChild ==
    (cls = "Succession" /\ op = "interpolate") =>
        \A k \in 1..Len(calls) :
            (calls[k][1] = "interpolate" /\ animations[calls[k][2]] = 0) =>
                calls[k][3] = Zero

\* The child calls interpolate(alpha) makes on the group built from the same
\* children and lag ratio with run_time left at its default.
DefaultGroupCalls(alpha) ==
    LET table == build_animations_with_timings(animations, lag_ratio)
    IN  InterpolateFrom(table, alpha, MaxEndTime(table), 1)

\* The run_time argument was given (non-negative).
Overridden == ~RLess(run_time_arg, Zero)

\* C12: whatever run_time was passed to the constructor, the sub-alphas of
\* AnimationGroup.interpolate(alpha) come from alpha * max_end_time and the
\* timing table built from the children, and so equal those of the group
\* built without a run_time.
C12_SubAlphasIgnoreOverride ==
    (IsGroup /\ op = "interpolate") =>
        /\ calls = DefaultGroupCalls(last_alpha)
        /\ \A i \in Children :
            (StartTime(i) # EndTime(i)) =>
                calls[i][3] =
                    clip(RDiv(RSub(RMul(last_alpha, max_end_time), StartTime(i)),
                              RSub(EndTime(i), StartTime(i))), Zero, One)

\* Children of run times 1 and 2 with lag_ratio 1/2 (max_end_time 5/2) and
\* run_time overridden to 1, at alpha 1/2: time 5/4, sub-alphas 1 and 3/8.
C12_Witness ==
    /\ IsGroup
    /\ animations = <<1, 2>>
    /\ lag_ratio = Rat(1, 2)
    /\ run_time_arg = One
    /\ run_time = One
    /\ max_end_time = Rat(5, 2)
    /\ op = "interpolate"
    /\ last_alpha = Rat(1, 2)
    /\ calls = <<<<"interpolate", 1, One>>, <<"interpolate", 2, Rat(3, 8)>>>>

\* C13 as stated: with run_time overridden to twice max_end_time,
\* interpolate(alpha) makes the child calls that interpolate(alpha / 2) makes
\* on the group built without the override.
C13_HalfAlpha ==
    (IsGroup /\ op = "interpolate" /\ RLess(Zero, max_end_time)
        /\ run_time_arg = RMul(RInt(2), max_end_time)) =>
        calls = DefaultGroupCalls(RDiv(last_alpha, RInt(2)))

\* C13, amended: with run_time overridden to twice max_end_time, the group at
\* alpha -- that is, after running for elapsed = alpha * run_time -- makes
\* the child calls that the group built without the override makes after
\* running for elapsed / 2, which is at the same alpha.
C13_HalfTime ==
    (IsGroup /\ op = "interpolate" /\ RLess(Zero, max_end_time)
        /\ run_time_arg = RMul(RInt(2), max_end_time)) =>
        LET elapsed == RMul(last_alpha, run_time)
            half_time == RDiv(elapsed, RInt(2))
        IN  /\ time_ratio(elapsed, run_time) = last_alpha
            /\ time_ratio(half_time, max_end_time) = last_alpha
            /\ calls = DefaultGroupCalls(time_ratio(half_time, max_end_time))

\* Children of run times 1 and 2 with lag_ratio 1/2 (max_end_time 5/2) and
\* run_time overridden to 5, at alpha 1/2: sub-alphas 1 and 3/8, where the
\* group without the override at alpha 1/4 has 5/8 and 1/16.
C13_Witness ==
    /\ IsGroup
    /\ animations = <<1, 2>>
    /\ lag_ratio = Rat(1, 2)
    /\ run_time_arg = RInt(5)
    /\ run_time = RInt(5)
    /\ op = "interpolate"
    /\ last_alpha = Rat(1, 2)
    /\ calls = <<<<"interpolate", 1, One>>, <<"interpolate", 2, Rat(3, 8)>>>>
    /\ DefaultGroupCalls(Rat(1, 4)) =
           <<<<"interpolate", 1, Rat(5, 8)>>, <<"interpolate", 2, Rat(1, 16)>>>>

RECURSIVE SumRunTimes(_)
\* The sum of the children's run times.
SumRunTimes(anims) ==
    IF anims = <<>> THEN 0 ELSE Head(anims) + SumRunTimes(Tail(anims))

\* C15: a group built with a negative run_time has as run time the sum of
\* its children's run times, for every lag_ratio.
C15_RunTimeIsSum ==
    (IsGroup /\ ~Overridden) => run_time = RInt(SumRunTimes(animations))

\* C16 as stated: with lag_ratio = 0 every child has start 0 and end equal
\* to its own run time, and a group of 3 children (here: of positive run
\* time) driven at alpha 1/2 drives every child at local alpha 1/2.
C16_HalfEverywhere ==
    (IsGroup /\ lag_ratio = Zero) =>
        /\ \A i \in Children :
            StartTime(i) = Zero /\ EndTime(i) = RInt(animations[i])
        /\ (NumChildren = 3 /\ op = "interpolate" /\ last_alpha = Rat(1, 2)
                /\ \A i \in Children : animations[i] > 0) =>
               \A i \in Children : calls[i] = <<"interpolate", i, Rat(1, 2)>>

\* C16, amended: with lag_ratio = 0 every child has start 0 and end equal to
\* its own run time, and a group whose children all have the same positive
\* run time drives every child at the local alpha it is driven at itself (a
\* group of 3 driven at 1/2 drives every child at 1/2).
C16_FullOverlap ==
    (IsGroup /\ lag_ratio = Zero) =>
        /\ \A i \in Children :
            StartTime(i) = Zero /\ EndTime(i) = RInt(animations[i])
        /\ (op = "interpolate"
                /\ \A i \in Children : animations[i] > 0 /\ animations[i] = animations[1]) =>
               \A i \in Children : calls[i] = <<"interpolate", i, last_alpha>>

\* Three children of run time 2, lag_ratio 0, alpha 1/2: every child at 1/2.
C16_Witness ==
    /\ IsGroup
    /\ animations = <<2, 2, 2>>
    /\ lag_ratio = Zero
    /\ op = "interpolate"
    /\ last_alpha = Rat(1, 2)
    /\ calls = <<<<"interpolate", 1, Rat(1, 2)>>, <<"interpolate", 2, Rat(1, 2)>>,
                 <<"interpolate", 3, Rat(1, 2)>>>>

\* C17: for children of non-negative run time and a lag_ratio in [0, 1],
\* interpolate(0) drives every child at local alpha 0 and interpolate(1)
\* drives every child of positive run time at local alpha 1.
C17_Endpoints ==
    (IsGroup /\ op = "interpolate" /\ RLeq(Zero, lag_ratio) /\ RLeq(lag_ratio, One)) =>
        /\ (last_alpha = Zero) =>
               /\ Len(calls) = NumChildren
               /\ \A i \in Children : calls[i] = <<"interpolate", i, Zero>>
        /\ (last_alpha = One) =>
               /\ Len(calls) = NumChildren
               /\ \A i \in Children :
                   (animations[i] > 0) => calls[i] = <<"interpolate", i, One>>

\* Children of run times 2, 0, 1 with lag_ratio 1/2 (intervals [0, 2],
\* [1, 1], [1, 2]) at alpha 1: the first and last child at 1, the
\* zero-run-time child at 0.
C17_Witness ==
    /\ IsGroup
    /\ animations = <<2, 0, 1>>
    /\ lag_ratio = Rat(1, 2)
    /\ op = "interpolate"
    /\ last_alpha = One
    /\ calls = <<<<"interpolate", 1, One>>, <<"interpolate", 2, Zero>>,
                 <<"interpolate", 3, One>>>>

\* The node is an AnimationGroup or a LaggedStart.
IsGroupNode(N) == N.cls \in {"AnimationGroup", "LaggedStart"}

RECURSIVE GroupsAlong(_, _)
\* Every composite from P down to the parent of the leaf at path is a group.
GroupsAlong(P, path) ==
    /\ IsGroupNode(P)
    /\ Len(path) > 1 => GroupsAlong(P.animations[Head(path)], Tail(path))

RECURSIVE Remapped(_, _, _)
\* The alpha that reaches the animation at path below the group P when P
\* receives alpha_P: the child N of P on the path, with interval [s, e),
\* receives clip((alpha_P * M - s) / (e - s), 0, 1) for M the max_end_time of
\* P (0 when s = e), and remaps it in turn.
Remapped(P, alpha_P, path) ==
    LET i == Head(path)
        s == P.anims_with_timings[i][2]
        e == P.anims_with_timings[i][3]
        M == P.max_end_time
        alpha_N == IF s = e THEN Zero
                   ELSE clip(RDiv(RSub(RMul(alpha_P, M), s), RSub(e, s)), Zero, One)
    IN  IF Len(path) = 1 THEN alpha_N
        ELSE Remapped(P.animations[i], alpha_N, Tail(path))

RECURSIVE LeafPaths(_, _)
\* The paths of the leaves below the animation at path.
LeafPaths(anim, path) ==
    IF anim.cls = "Animation" THEN {path}
    ELSE UNION {LeafPaths(anim.animations[i], Append(path, i)) :
                    i \in 1..Len(anim.animations)}

\* C18: in a tree of groups, interpolate(alpha) on the root reaches every
\* leaf exactly once, with the alpha obtained by applying, from the root
\* down, each group's own remap clip((alpha_P * M - s) / (e - s), 0, 1) (its
\* own max_end_time and timing table) to the value its parent handed it.
C18_NestedRemap ==
    (tree # NoTree /\ op = "interpolate") =>
        /\ \A k \in 1..Len(leaf_calls) :
            (leaf_calls[k][1] = "interpolate" /\ GroupsAlong(tree, leaf_calls[k][2])) =>
                leaf_calls[k][3] = Remapped(tree, last_alpha, leaf_calls[k][2])
        /\ \A p \in LeafPaths(tree, <<>>) :
            GroupsAlong(tree, p) =>
                Cardinality({k \in 1..Len(leaf_calls) :
                                 leaf_calls[k][1] = "interpolate"
                                     /\ leaf_calls[k][2] = p}) = 1

\* An AnimationGroup with lag_ratio 1/2 of a plain animation of run time 1
\* and an AnimationGroup N with lag_ratio 1/2 of plain animations of run
\* times 1 and 2 (N: intervals [0, 1], [1/2, 5/2]; root: [0, 1], [1/2, 3]),
\* at alpha 1/2: N receives 2/5, its children 1 and 1/4.
C18_Witness ==
    /\ tree # NoTree
    /\ tree.cls = "AnimationGroup"
    /\ tree.lag_ratio = Rat(1, 2)
    /\ Len(tree.animations) = 2
    /\ tree.animations[1] = Leaf(One)
    /\ tree.animations[2].cls = "AnimationGroup"
    /\ tree.animations[2].lag_ratio = Rat(1, 2)
    /\ tree.animations[2].animations = <<Leaf(One), Leaf(RInt(2))>>
    /\ tree.max_end_time = RInt(3)
    /\ op = "interpolate"
    /\ last_alpha = Rat(1, 2)
    /\ leaf_calls = <<<<"interpolate", <<1>>, One>>, <<"interpolate", <<2, 1>>, One>>,
                      <<"interpolate", <<2, 2>>, Rat(1, 4)>>>>

\* C19: on a begun tree of AnimationGroup / LaggedStart / Succession nodes,
\* an interpolate(a) that directly follows an interpolate(a) delivers the
\* same alphas to the same leaves as the first, makes no begin or finish
\* call, and leaves every composite of the tree as it was.
C19_Idempotent ==
    [][(tree # NoTree /\ op = "interpolate" /\ op' = "interpolate"
            /\ last_alpha' = last_alpha) =>
           /\ leaf_calls' = SelectSeq(leaf_calls, LAMBDA c : c[1] = "interpolate")
           /\ \A k \in 1..Len(leaf_calls') : leaf_calls'[k][1] = "interpolate"
           /\ tree' = tree]_vars

\* A group whose first child is a Succession of two that has moved on to its
\* second child, interpolated twice in a row at the same alpha.
C19_Witness ==
    /\ tree # NoTree
    /\ IsGroupNode(tree)
    /\ tree.animations[1].cls = "Succession"
    /\ tree.animations[1].active_animation = 2
    /\ op = "interpolate"
    /\ repeated
    /\ Len(leaf_calls) = 2
    /\ leaf_calls[1][1] = "interpolate" /\ leaf_calls[1][2] = <<1, 2>>
    /\ leaf_calls[2][1] = "interpolate" /\ leaf_calls[2][2] = <<2>>

\* C20: once finish() has been forced on a begun composite, whatever point
\* of the run it had reached, every child has been finished (finish is what
\* brings a child's target to its final state).
C20_FinishCompletesAll ==
    (op = "finish" /\ phase = "finished") =>
        \A i \in Children : status[i] = "Finished"

\* C21: calling interpolate or finish on a composite before begin, or begin
\* on a composite that is already begun, raises.
C21_MisuseRaises ==
    [][((op' \in {"interpolate", "finish"} /\ phase = "constructed")
            \/ (op' = "begin" /\ phase = "begun"))
        => raised' # "none"]_vars

\* total_time / run_time of the animation the updater drives.
UpdaterRatio == time_ratio(total_time, tree.run_time)
\* The updater's last run called finish() on the animation.
FinishCalled(cs) == \E k \in 1..Len(cs) : cs[k][1] = "finish"

\* C22: once an updater with cycle = False has driven its animation to
\* completion and removed itself, every leaf of the tree has received begin
\* exactly once and finish exactly once.
C22_LeafLifecycleOnce ==
    (~cycle /\ ~has_updater) =>
        \A path \in LeafPaths(tree, <<>>) :
            /\ NumCalls(events, <<"begin", path>>) = 1
            /\ NumCalls(events, <<"finish", path>>) = 1

\* C23: an updater with cycle = False on an animation of positive run time
\* runs only while it is on the mobject; the run that finds total_time /
\* run_time >= 1 calls finish() and nothing else and takes the updater off
\* the mobject; every other run leaves it on and calls no finish(); finish()
\* is called on an animation that was not finished before.
C23_FinishOnceThenStop ==
    [][(~cycle /\ RLess(Zero, tree.run_time)) =>
          /\ has_updater
          /\ IF RLeq(One, UpdaterRatio)
             THEN calls' = <<<<"finish">>>> /\ ~has_updater' /\ phase = "begun"
             ELSE has_updater' /\ ~FinishCalled(calls')]_vars

\* An updater that overshot the run time has finished and removed itself.
C23_Witness ==
    /\ ~cycle
    /\ ~has_updater
    /\ calls = <<<<"finish">>>>
    /\ RLess(tree.run_time, total_time)
    /\ RLess(Zero, tree.run_time)

\* The updater does not cycle and its animation has a positive run time.
RunsOnce == ~cycle /\ RLess(Zero, tree.run_time)
\* finish() was called and the updater is off the mobject.
Completed == ~has_updater /\ phase = "finished"

\* C24: with cycle = False and a positive run time, an updater that keeps
\* being run with positive dt eventually calls finish() and is removed.
C24_EventuallyRemoved == RunsOnce ~> Completed

\* A plain animation of the longest run time, finished after steps of the
\* smallest positive dt only.
C24_Witness ==
    /\ ~cycle
    /\ ~has_updater
    /\ phase = "finished"
    /\ tree = Leaf(RInt(MaxRunTime))
    /\ total_time = RInt(MaxRunTime)

\* C25: with cycle = True the updater stays on the mobject, finish() is not
\* called, and every alpha passed to interpolate is in [0, 1).
C25_CycleNeverFinishes ==
    cycle =>
        /\ has_updater
        /\ phase = "begun"
        /\ ~FinishCalled(calls)
        /\ \A k \in 1..Len(calls) :
              calls[k][1] = "interpolate" =>
                  RLeq(Zero, calls[k][2]) /\ RLess(calls[k][2], One)

\* A cycling updater in its third pass over the animation.
C25_Witness ==
    /\ cycle
    /\ op = "update"
    /\ raised = "none"
    /\ RLess(RMul(RInt(2), tree.run_time), total_time)
    /\ calls[1] = <<"interpolate", Rat(1, 2)>>

\* C26: the composite's animating flag is true exactly while the composite
\* is begun and not yet finished.
C26_AnimatingWhileBegun == animating_status = (phase = "begun")

\* C27: after finish and clean_up_from_scene, no mobject of a composite
\* built with remover = True is left in the scene.
C27_RemoverGroupRemoved == (remover /\ op = "clean_up_from_scene") => scene = {}

\* C28: a Succession with no children is rejected by its constructor, before
\* begin or interpolate is called.
C28_EmptyRejected ==
    (cls = "Succession" /\ Len(animations) = 0 /\ op = "__init__") => raised # "none"

\* C29: a partial-reveal animation on a mobject that is not path-based is
\* rejected by its constructor.
C29_RejectedAtConstruction ==
    (reveal # <<>> /\ reveal.mobject # "VMobject" /\ op = "__init__") => raised # "none"

\* C30: two runs of one PhaseFlow from the same starting state whose latest
\* interpolate had the same alpha have the mobject in the same state.
C30_SameAlphaSameState ==
    (flows # <<>> /\ flows.runs[1].last_alpha # NoAlpha
        /\ flows.runs[1].last_alpha = flows.runs[2].last_alpha) =>
        flows.runs[1].point = flows.runs[2].point

\* C31: LaggedStartMap builds one child per element of the group it is
\* given, child i on element i, and its self.group is the group it was given.
C31_OneChildPerElement ==
    group_arg # <<>> =>
        /\ raised = "none"
        /\ Len(child_anims) = Len(group_arg.submobjects)
        /\ \A i \in 1..Len(child_anims) : child_anims[i].mobject = group_arg.submobjects[i]
        /\ Len(animations) = Len(child_anims)
        /\ group = group_arg

\* C32: an interpolate of a begun Succession that resolves a child other
\* than the active one calls finish on the active child, begin on the new
\* one and interpolate on the new one, in that order and nothing else; every
\* other child, those between the two included, keeps its lifecycle state.
C32_SwitchOrder ==
    [][(cls = "Succession" /\ phase = "begun" /\ op' = "interpolate"
            /\ active_animation' # active_animation) =>
          /\ Len(calls') = 3
          /\ calls'[1] = <<"finish", active_animation>>
          /\ calls'[2] = <<"begin", active_animation'>>
          /\ SubSeq(calls'[3], 1, 2) = <<"interpolate", active_animation'>>
          /\ \A j \in Children \ {active_animation, active_animation'} :
                status'[j] = status[j]]_vars

\* A switch from the first child to the third: the second is skipped.
C32_Witness ==
    /\ cls = "Succession"
    /\ op = "interpolate"
    /\ NumChildren = 3
    /\ calls = <<<<"finish", 1>>, <<"begin", 3>>, <<"interpolate", 3, One>>>>
    /\ status[2] = "NotStarted"

\* C33: finish on a begun Succession calls finish on the active child and
\* nothing else; the active child stays the active one and every other
\* child keeps its lifecycle state.
C33_FinishActiveOnly ==
    [][(cls = "Succession" /\ phase = "begun" /\ op' = "finish") =>
          /\ calls' = <<<<"finish", active_animation>>>>
          /\ active_animation' = active_animation
          /\ status'[active_animation] = "Finished"
          /\ \A j \in Children \ {active_animation} : status'[j] = status[j]]_vars

\* A Succession finished while its second child of three was active.
C33_Witness ==
    /\ cls = "Succession"
    /\ op = "finish"
    /\ phase = "finished"
    /\ NumChildren = 3
    /\ active_animation = 2
    /\ status = <<"Finished", "Finished", "NotStarted">>

\* C34: no begin, interpolate, finish, update_mobjects or
\* clean_up_from_scene changes the composite's children, timing table,
\* max_end_time, run_time or the mobjects that make up its group.
C34_FixedAtConstruction ==
    [][UNCHANGED <<animations, anims_with_timings, max_end_time, run_time, lag_ratio,
                   child_anims>>]_vars

\* A composite of three children, interpolated, finished and cleaned up from
\* the scene, with the table it was built with.
C34_Witness ==
    /\ op = "clean_up_from_scene"
    /\ scene = {}
    /\ last_alpha # NoAlpha
    /\ NumChildren = 3
    /\ RLess(Zero, max_end_time)
    /\ anims_with_timings = build_animations_with_timings(animations, lag_ratio)
    /\ run_time = max_end_time

\* The updater's last run called interpolate on the animation.
Interpolated(cs) == cs # <<>> /\ cs[1][1] = "interpolate"

\* C35: with cycle = False, every alpha the updater passes to interpolate is
\* in [0, 1), the first run passes 0, and no run passes less than the run
\* before it.
C35_AlphasRise ==
    [][(~cycle /\ Interpolated(calls')) =>
          /\ RLeq(Zero, calls'[1][2])
          /\ RLess(calls'[1][2], One)
          /\ op = "turn_animation_into_updater" => calls'[1][2] = Zero
          /\ Interpolated(calls) => RLeq(calls[1][2], calls'[1][2])]_vars

\* A run that passes 3/4 after a run that passed less.
C35_Witness ==
    /\ ~cycle
    /\ op = "update"
    /\ Interpolated(calls)
    /\ calls[1][2] = Rat(3, 4)
    /\ total_time = RAdd(RMul(Rat(3, 4), tree.run_time), Rat(1, DtDen))

\* C36: no run of the updater raises a division error; an animation whose
\* run time is 0 is finished and its updater removed.
C36_NoDivisionError ==
    /\ raised # "ZeroDivisionError"
    /\ (op = "update" /\ tree.run_time = Zero) => (~has_updater /\ FinishCalled(calls))

\* The dispatcher has just dispatched an event of the given type.
Dispatched(t) == op = "dispatch" /\ event[1] = t

\* C37: a listener passed to remove_listner (and not added again) is not
\* registered any more, and no dispatch calls its callback.
C37_RemovedNeverCalled ==
    \A l \in removed :
        /\ ~Registered(event_listners[l.event_type], l)
        /\ op = "dispatch" => ~Registered(calls, l)

\* C38: a MouseDragEvent reaches only MouseDragEvent listeners whose mobject
\* touched the mouse point at the latest MousePressEvent, and none when no
\* MousePressEvent was dispatched since construction or the latest
\* MouseReleaseEvent.
C38_DragOnlyToPressed ==
    Dispatched("MouseDragEvent") =>
        /\ \A k \in 1..Len(calls) :
              /\ calls[k].event_type = "MouseDragEvent"
              /\ Registered(last_press.touching, calls[k])
        /\ ~last_press.pressed => calls = <<>>

\* Two drag listeners were registered at the press, the mouse on point 1:
\* the drag reached the one whose mobject touches it, not the other.
C38_Witness ==
    /\ Dispatched("MouseDragEvent")
    /\ mouse_point = 1
    /\ Len(event_listners["MouseDragEvent"]) = 2
    /\ event_listners["MouseDragEvent"][1].mobject = 1
    /\ last_press.pressed
    /\ Len(calls) = 1
    /\ calls[1].mobject = 2

\* The listeners a dispatch of event type t finds eligible, in the order
\* they were added.
Eligible(t) ==
    IF t = "MouseDragEvent" THEN draggable_object_listners
    ELSE IF t \in MouseEvents THEN TouchingListners(event_listners[t], mouse_point)
    ELSE event_listners[t]

\* C39: dispatch calls the eligible listeners in the order they were added
\* up to the first whose callback returns False and then returns False; the
\* callbacks find the dispatcher's attributes already updated, and the update
\* stays when a callback returns False.
C39_OrderedUntilFalse ==
    op = "dispatch" =>
        LET eligible == Eligible(event[1])
        IN  /\ Len(calls) <= Len(eligible)
            /\ \A k \in 1..Len(calls) : calls[k] = eligible[k]
            /\ \A k \in 1..(Len(calls) - 1) : CallbackReturn(calls[k].callback) # "False"
            /\ returned # "False" => calls = eligible
            /\ returned = "False" <=>
                  (calls # <<>> /\ CallbackReturn(calls[Len(calls)].callback) = "False")
            /\ calls # <<>> => seen = <<mouse_point, mouse_drag_point, pressed_keys,
                                        draggable_object_listners>>
            /\ event[1] = "MouseMotionEvent" => mouse_point = event[2]
            /\ event[1] = "MouseDragEvent" => mouse_drag_point = event[2]
            /\ event[1] = "KeyPressEvent" => event[3] \in pressed_keys
            /\ event[1] = "KeyReleaseEvent" => event[3] \notin pressed_keys
            /\ event[1] = "MousePressEvent" =>
                  draggable_object_listners =
                      TouchingListners(event_listners["MouseDragEvent"], mouse_point)
            /\ event[1] = "MouseReleaseEvent" => draggable_object_listners = <<>>

\* A key press with two listeners, the first returning False: the second
\* was not called, False was returned and the key is among the pressed keys.
C39_Witness ==
    /\ Dispatched("KeyPressEvent")
    /\ Len(event_listners["KeyPressEvent"]) = 2
    /\ event_listners["KeyPressEvent"][2].mobject = 1
    /\ Len(calls) = 1
    /\ returned = "False"
    /\ pressed_keys = {event[3]}

\* C40: ShowSubmobjectsOneByOne never shows more than one submobject, and on
\* a group of n >= 1 submobjects what it shows once finished (alpha = 1) is
\* the last submobject.
C40_LastShownAtEnd ==
    (cls = "ShowSubmobjectsOneByOne" /\ phase # "constructed" /\ Len(all_submobs) >= 1) =>
        /\ Len(submobjects) <= 1
        /\ op = "finish" => submobjects = <<all_submobs[Len(all_submobs)]>>

====
